---- MODULE Spec2Model ----
(***************************************************************************)
(* A model of the GEO analysis pipeline (apps/analyzer): the crawler's     *)
(* retry loop, the orchestrator of one analysis run (tasks.py), the shared *)
(* LLM call log (pipeline/llm.py), the six pillar scorers, the aggregator  *)
(* and the recommendation engine.                                          *)
(***************************************************************************)
EXTENDS Integers, Sequences, FiniteSets, TLC

VARIABLES
    pc,              \* [Runs -> position of the run's thread in run_single_page_analysis]
    run,             \* [Runs -> the in-memory AnalysisRun object of the thread]
    db,              \* [Runs -> the persisted AnalysisRun row]
    crawl,           \* [Runs -> the CrawlResult of the primary fetch]
    pillar,          \* [Runs -> [Pillars -> state of the pillar's local result]]
    fut,             \* [Runs -> [LlmPillars -> state of the worker future]]
    page_score,      \* [Runs -> the run's persisted PageScore (pillar states), or NoRecord]
    exc,             \* [Runs -> the call whose exception reached the handler, or "none"]
    ncalls,          \* [Runs -> number of LLM calls the run has made]
    collected_logs,  \* llm._collected_logs: None or the list of logged calls
    hist,            \* [Runs -> what the run's thread has done so far: collections opened
                     \*  and drained, rows written, composite and recommendations computed,
                     \*  findings appended by the orchestrator, the competitor's records]
    keys,            \* which API key the process environment holds
    call_counter,    \* llm._call_counter
    availability_cache, \* llm._availability_cache: "None", "True" or "False"
    picker,          \* [Pickers -> a thread inside is_available and _pick_model]
    sc,              \* the pillar scorer under execution
    input,           \* the argument of the function under execution
    output           \* <<>>, or the one result of the function

runVars == <<pc, run, db, crawl, pillar, fut, page_score, exc, ncalls, collected_logs, hist>>

fnVars == <<sc, input, output>>

envVars == <<keys, call_counter, availability_cache, picker>>

vars == <<runVars, fnVars, envVars>>

(***************************************************************************)
(* Bounds of the model.                                                    *)
(***************************************************************************)
MaxLlmCalls == 1

Runs == {1, 2}

Pillars == {"content", "schema", "eeat", "technical", "entity", "ai_visibility"}

LlmPillars == {"eeat", "entity", "ai_visibility"}

\* The API keys of the environment, and is_available().
KeyConfigs == {"none", "openrouter", "google"}

is_available(k) == k # "none"

\* The PageScore a run has not created.
NoRecord == [p \in Pillars |-> "absent"]

Max(a, b) == IF a >= b THEN a ELSE b

Min(a, b) == IF a <= b THEN a ELSE b

(***************************************************************************)
(* pipeline/crawler.py                                                     *)
(***************************************************************************)
MAX_RETRIES == 2

\* A retry policy that also retries a 404.
RetryStatusesWith404 == {404, 429, 500, 502, 503, 504}

RetryStatuses == {429, 500, 502, 503, 504}

\* What one requests.get can do: answer with a status, or raise.
HttpResponse(code) == [kind |-> "http", code |-> code]

Responses ==
    {HttpResponse(c) : c \in {200, 403, 404} \cup RetryStatuses}
        \cup {[kind |-> k, code |-> 0] : k \in {"timeout", "connection", "request_exception"}}

\* The environment of one crawl_page call: the answer to each possible attempt.
CrawlEnvs == [1..(MAX_RETRIES + 1) -> Responses]

NewCrawlResult ==
    [status_code |-> 0, soup |-> FALSE, error |-> "", load_time_set |-> FALSE,
     attempts |-> <<>>, sleeps |-> <<>>]

CrawlOk(c) == c.status_code = 200 /\ c.soup

\* One pass of the for loop of crawl_page; last_error is the loop's local.
RECURSIVE crawl_loop(_, _, _, _)
crawl_loop(env, attempt, last_error, result) ==
    IF attempt > MAX_RETRIES
    THEN [result EXCEPT !.error = last_error]
    ELSE LET resp == env[attempt + 1]
             tried == [result EXCEPT !.attempts = Append(@, resp)]
         IN  CASE resp.kind = "http" ->
                    LET got == [tried EXCEPT !.load_time_set = TRUE,
                                             !.status_code = resp.code]
                    IN  IF resp.code = 200
                        THEN [got EXCEPT !.soup = TRUE]
                        ELSE IF resp.code \in RetryStatuses
                        THEN crawl_loop(env, attempt + 1, "HTTP " \o ToString(resp.code),
                                 [got EXCEPT !.sleeps = Append(@, 2 * (attempt + 1))])
                        ELSE [got EXCEPT !.error = "HTTP " \o ToString(resp.code)]
               [] resp.kind = "timeout" ->
                    crawl_loop(env, attempt + 1, "Request timed out",
                        [tried EXCEPT !.sleeps = Append(@, 1)])
               [] resp.kind = "connection" ->
                    crawl_loop(env, attempt + 1, "Connection error",
                        [tried EXCEPT !.sleeps = Append(@, 1)])
               [] OTHER ->
                    [tried EXCEPT !.error = "RequestException"]

crawl_page(env) == crawl_loop(env, 0, "", NewCrawlResult)

(***************************************************************************)
(* Scores are exact rationals [n, d] with d > 0, kept in lowest terms.     *)
(***************************************************************************)
RECURSIVE GCD(_, _)
GCD(a, b) == IF b = 0 THEN a ELSE GCD(b, a % b)

Abs(x) == IF x < 0 THEN 0 - x ELSE x

Q(n, d) == LET g == GCD(Abs(n), d) IN [n |-> n \div g, d |-> d \div g]

QInt(i) == [n |-> i, d |-> 1]

QAdd(a, b) == Q(a.n * b.d + b.n * a.d, a.d * b.d)

QMul(a, b) == Q(a.n * b.n, a.d * b.d)

QLe(a, b) == a.n * b.d <= b.n * a.d

QLt(a, b) == a.n * b.d < b.n * a.d

QMin(a, b) == IF QLe(a, b) THEN a ELSE b

QMax(a, b) == IF QLe(b, a) THEN a ELSE b

RECURSIVE QSum(_)
QSum(seq) == IF seq = <<>> THEN QInt(0) ELSE QAdd(Head(seq), QSum(Tail(seq)))

InRange(q) == QLe(QInt(0), q) /\ QLe(q, QInt(100))

(***************************************************************************)
(* pipeline/utils.py                                                       *)
(***************************************************************************)
\* A scorer that returns its raw total.
safe_score_unclamped(value) == value

\* max(0.0, min(float(value), 100.0))
safe_score(value) == QMax(QInt(0), QMin(value, QInt(100)))

(***************************************************************************)
(* The pillar scorers.  A scorer runs its checks in the order of the code; *)
(* each check takes one of its branches, which adds points to the score    *)
(* (or to the static sub-score of the entity scorer) and may append        *)
(* findings.                                                               *)
(***************************************************************************)
B(points, findings) ==
    [pts |-> QInt(points), emits |-> findings, sub |-> FALSE, mention |-> FALSE]

BQ(points, findings) ==
    [pts |-> points, emits |-> findings, sub |-> FALSE, mention |-> FALSE]

BSub(points, findings) ==
    [pts |-> QInt(points), emits |-> findings, sub |-> TRUE, mention |-> FALSE]

\* content.py: _score_structure then _score_geo_quality.
ContentChecks ==
    << {B(5, {}), B(0, {"no_h1"}), B(0, {"multiple_h1"})},
       {B(5, {}), B(0, {"broken_heading_hierarchy"})},
       {B(8, {}), B(0, {"no_faq_section"})},
       {B(4, {}), B(0, {"no_lists"})},
       {B(3, {}), B(0, {})},
       {B(5, {}), B(0, {"no_answer_first"})},
       {B(5, {}), B(0, {"few_internal_links"})},
       {B(12, {}), B(9, {}), B(5, {}), B(0, {"no_citations"})},
       {B(10, {}), B(7, {}), B(4, {}), B(0, {"no_statistics"})},
       {B(8, {}), B(5, {}), B(0, {"no_expert_quotes"})},
       {B(8, {}), B(5, {}), B(3, {}), B(0, {"weak_authoritative_tone"})},
       \* readability: grade 4 / 2 / 0 plus ease 3 / 1 / 0, or the neutral 3
       {B(g + e, IF g = 0 THEN {"poor_readability"} ELSE {}) : g \in {4, 2, 0}, e \in {3, 1, 0}}
           \cup {B(3, {})},
       {B(5, {}), B(3, {}), B(1, {}), B(0, {"no_technical_terms"})},
       {B(5, {}), B(3, {}), B(1, {}), B(0, {"low_vocabulary_diversity"}), B(0, {})},
       \* fluency: word count, paragraph length, transition words
       {B(2, {}), B(1, {}), B(0, {"low_word_count"})},
       {B(2, {}), B(1, {}), B(0, {"poor_paragraph_structure"}), B(0, {})},
       {B(1, {}), B(0, {})},
       {B(0 - 5, {"keyword_stuffing"}), B(0 - 2, {}), B(0, {})} >>

\* eeat.py: _score_structural_signals with the findings score_eeat derives from it.
EeatStructuralChecks ==
    << {B(10, {}), B(7, {}), B(3, {"few_external_citations"}), B(0, {"few_external_citations"})},
       {B(10, {}), B(6, {}), B(0, {"no_trust_links"})},
       {B(5, {}), B(3, {}), B(0, {"low_source_diversity"})},
       {B(3, {}), B(0, {"no_publish_date"})},
       {B(2, {}), B(0, {"no_updated_date"})},
       \* about, contact, privacy, terms: 3 points each, at most 10
       {B(Min(10, 3 * (1 + others)), {}) : others \in 0..3}
           \cup {B(Min(10, 3 * others), {"no_about_page"}) : others \in 0..3} >>

\* The scores an LLM may put in its E-E-A-T answer, before validation.
GeminiScores == {0 - 3, 0, 3, 4, 10, 12}

\* _gemini_eeat_analysis clamps each score to 0..10; score_eeat gives
\* (score / 10) * 15 points and a finding below 4.
GeminiDimension(finding) ==
    {BQ(Q(Max(0, Min(10, g)) * 15, 10), IF Max(0, Min(10, g)) < 4 THEN {finding} ELSE {})
        : g \in GeminiScores}

EeatGeminiChecks ==
    << GeminiDimension("no_first_hand_experience"),
       GeminiDimension("no_expertise_indicators"),
       GeminiDimension("low_authority"),
       GeminiDimension("low_trust_signals") >>

\* eeat.py: _static_content_eeat.
EeatStaticChecks ==
    << {B(15, {}), B(0, {"no_author"})},
       {B(10, {}), B(0, {"no_author_bio"})},
       {B(10, {}), B(5, {}), B(0, {"no_first_hand_experience"})},
       {B(10, {}), B(6, {}), B(3, {}), B(0, {"no_expertise_indicators"})},
       {B(5, {}), B(0, {})},
       {B(5, {}), B(0, {})},
       {B(5, {}), B(3, {}), B(0, {})} >>

\* The mention_score an LLM may put in its answer; entity.py does not validate it.
MentionScores == {0 - 4, 0, 3, 10, 40}

\* entity.py, score_entity: brand extraction and the Wikipedia lookup.
EntityCommonChecks ==
    << {B(5, {}), B(0, {})},
       {B(25, {}), B(0, {"no_wikipedia_presence"})} >>

\* entity.py, score_entity with an LLM: knowledge panel, third-party mentions
\* (tp_points = min(25, mention_score * 2.5)), social links, domain.
EntityLlmChecks ==
    << {B(25, {}), B(0, {"brand_not_in_ai"})},
       {BQ(QMin(QInt(25), Q(m * 5, 2)), {}) : m \in MentionScores},
       {B(10, {}), B(5, {}), B(0, {"no_social_profiles"})},
       {B(10, {}), B(0, {})} >>

MaxOrgScripts == 3

\* entity.py, _static_entity_signals: social links, each JSON-LD script with an
\* Organization (10, and 5 more with sameAs), contact info, domain.
EntityStaticChecks ==
    << {BSub(15, {}), BSub(10, {}), BSub(5, {}), BSub(0, {"no_social_profiles"})} >>
        \o [i \in 1..MaxOrgScripts |-> {BSub(0, {}), BSub(10, {}), BSub(15, {})}]
        \o << {BSub(10, {}), BSub(0, {})},
              {BSub(10, {}), BSub(0, {})} >>

\* technical.py, score_technical: the checks that need no page HTML.
TechnicalFileChecks ==
    << {B(20, {}), B(0, {"no_llms_txt"})},
       {B(20, {}), B(0, {"ai_bots_blocked"})},
       {B(10, {}), B(0, {"no_sitemap"})},
       {B(5, {}), B(0, {"no_https"})},
       {B(15, {}), B(10, {}), B(5, {}), B(0, {"slow_load_time"}), B(0, {})} >>

\* technical.py, score_technical: meta robots, viewport, canonical.
TechnicalHtmlChecks ==
    << {B(10, {}), B(0, {"meta_noindex"})},
       {B(10, {}), B(0, {"no_viewport"})},
       {B(10, {}), B(0, {"no_canonical"})} >>

\* The prominence of a mention, in [0, 1] by _analyze_mention_quality.
Prominences == {Q(0, 1), Q(1, 2), Q(1, 1)}

\* ai_visibility.py: one probe of n; a mention earns 60% of 100 / n plus 40%
\* of it weighted by the prominence.
ProbeCheck(n) ==
    {BQ(QInt(0), {})} \cup
    {[pts |-> QAdd(QMul(Q(100, n), Q(6, 10)), QMul(QMul(Q(100, n), Q(4, 10)), pr)),
      emits |-> {}, sub |-> FALSE, mention |-> TRUE] : pr \in Prominences}

ProbeCounts == 3..5

ProbeMode(n) == "probes_" \o ToString(n)

\* The ways a scorer can run: with or without page HTML, with or without an LLM.
Modes(name) ==
    CASE name = "content" -> {"ok", "not_ok"}
      [] name = "schema" -> {"ok", "not_ok"}
      [] name = "eeat" -> {"gemini", "static", "not_ok"}
      [] name = "technical" -> {"html", "no_html"}
      [] name = "entity" -> {"llm", "static", "not_ok"}
      [] name = "ai_visibility" -> {ProbeMode(n) : n \in ProbeCounts} \cup {"not_ok"}

\* The modes the environment's keys allow: the LLM modes need an available
\* LLM; without one the entity scorer takes its static fallback and the
\* AI-visibility scorer the five template probes of INDUSTRY_PROBES.
ModesWith(name, k) ==
    {mode \in Modes(name) :
        CASE name = "eeat" /\ mode = "gemini" -> is_available(k)
          [] name = "entity" /\ mode = "llm" -> is_available(k)
          [] name = "entity" /\ mode = "static" -> ~is_available(k)
          [] name = "ai_visibility" /\ mode \in {ProbeMode(3), ProbeMode(4)} -> is_available(k)
          [] OTHER -> TRUE}

Checks(name, mode) ==
    CASE mode = "not_ok" -> <<>>
      [] name = "content" -> ContentChecks
      [] name = "eeat" /\ mode = "gemini" -> EeatStructuralChecks \o EeatGeminiChecks
      [] name = "eeat" /\ mode = "static" -> EeatStructuralChecks \o EeatStaticChecks
      [] name = "technical" /\ mode = "html" -> TechnicalFileChecks \o TechnicalHtmlChecks
      [] name = "technical" /\ mode = "no_html" -> TechnicalFileChecks
      [] name = "entity" /\ mode = "llm" -> EntityCommonChecks \o EntityLlmChecks
      [] name = "entity" /\ mode = "static" -> EntityCommonChecks \o EntityStaticChecks
      [] name = "ai_visibility" ->
            LET n == CHOOSE k \in ProbeCounts : mode = ProbeMode(k)
            IN  [i \in 1..n |-> ProbeCheck(n)]
      [] OTHER -> <<>>

\* The total after the checks, before safe_score.
RawTotal(name, mode, score, sub) ==
    CASE name = "entity" /\ mode = "static" ->
            \* scaled_static = (static_score / 50.0) * 65.0 if static_score > 0 else 0
            QAdd(score, IF QLt(QInt(0), sub) THEN QMul(sub, Q(65, 50)) ELSE QInt(0))
      [] name = "technical" /\ mode = "no_html" ->
            \* if score > 0: score = score * (100 / 70)
            IF QLt(QInt(0), score) THEN QMul(score, Q(100, 70)) ELSE score
      [] OTHER -> score

\* What a scorer returns: 0.0 at once for a crawl that is not ok, and the
\* clamped total otherwise.
Returned(name, mode, score, sub) ==
    IF mode = "not_ok" THEN QInt(0) ELSE safe_score(RawTotal(name, mode, score, sub))

\* Findings appended after the checks.
FinalFindings(name, mode, mentioned) ==
    IF name = "ai_visibility" /\ mode # "not_ok" /\ ~mentioned
    THEN {"brand_not_in_ai"} ELSE {}

(***************************************************************************)
(* pipeline/schema.py                                                      *)
(***************************************************************************)
SCHEMA_REQUIRED_PROPS ==
    [FAQPage |-> {"mainEntity"},
     Article |-> {"headline", "author", "datePublished"},
     NewsArticle |-> {"headline", "author", "datePublished"},
     BlogPosting |-> {"headline", "author", "datePublished"},
     Organization |-> {"name", "url"},
     LocalBusiness |-> {"name", "address"},
     Product |-> {"name"},
     HowTo |-> {"name", "step"},
     BreadcrumbList |-> {"itemListElement"},
     WebSite |-> {"name", "url"},
     WebPage |-> {"name"},
     VideoObject |-> {"name", "uploadDate"},
     Event |-> {"name", "startDate"},
     Review |-> {"itemReviewed", "reviewRating"},
     AggregateRating |-> {"ratingValue", "reviewCount"},
     SoftwareApplication |-> {"name"},
     Service |-> {"name"}]

SCHEMA_RECOMMENDED_PROPS ==
    [FAQPage |-> {},
     Article |-> {"image", "publisher", "dateModified", "description"},
     NewsArticle |-> {"image", "publisher", "dateModified", "description"},
     BlogPosting |-> {"image", "publisher", "dateModified", "description"},
     Organization |-> {"logo", "sameAs", "description", "contactPoint", "address"},
     LocalBusiness |-> {"telephone", "openingHours", "geo"},
     Product |-> {"description", "image", "offers", "brand", "review", "aggregateRating"},
     HowTo |-> {"description", "image", "totalTime"},
     BreadcrumbList |-> {},
     WebSite |-> {"potentialAction", "description"},
     WebPage |-> {"description", "datePublished"},
     VideoObject |-> {"description", "thumbnailUrl", "duration"},
     Event |-> {"location", "description", "endDate"},
     Review |-> {"author", "datePublished"},
     AggregateRating |-> {"bestRating"},
     SoftwareApplication |-> {"applicationCategory", "offers", "operatingSystem"},
     Service |-> {"description", "provider", "areaServed"}]

\* SCHEMA_REQUIRED_PROPS.get(schema_type, set())
RequiredProps(t) ==
    IF t \in DOMAIN SCHEMA_REQUIRED_PROPS THEN SCHEMA_REQUIRED_PROPS[t] ELSE {}

RecommendedProps(t) ==
    IF t \in DOMAIN SCHEMA_RECOMMENDED_PROPS THEN SCHEMA_RECOMMENDED_PROPS[t] ELSE {}

identity_types == {"Organization", "LocalBusiness", "Corporation"}

\* str.lower on the type names the documents of the model use.
Lower(t) ==
    CASE t = "FAQPage" -> "faqpage"
      [] t = "Article" -> "article"
      [] t = "NewsArticle" -> "newsarticle"
      [] t = "BlogPosting" -> "blogposting"
      [] t = "Organization" -> "organization"
      [] t = "LocalBusiness" -> "localbusiness"
      [] t = "Product" -> "product"
      [] t = "HowTo" -> "howto"
      [] t = "BreadcrumbList" -> "breadcrumblist"
      [] t = "WebSite" -> "website"
      [] t = "WebPage" -> "webpage"
      [] t = "VideoObject" -> "videoobject"
      [] t = "Event" -> "event"
      [] t = "Review" -> "review"
      [] t = "AggregateRating" -> "aggregaterating"
      [] t = "SoftwareApplication" -> "softwareapplication"
      [] t = "Service" -> "service"
      [] t = "Corporation" -> "corporation"
      [] t = "Thing" -> "thing"

\* _compute_completeness: required share * 0.7 + recommended share * 0.3, an
\* empty property set counting as 1.0; with the required properties missing.
compute_completeness(obj, schema_type) ==
    LET required == RequiredProps(schema_type)
        recommended == RecommendedProps(schema_type)
        req_score == IF required = {} THEN QInt(1)
                     ELSE Q(Cardinality(required \cap obj.props), Cardinality(required))
        rec_score == IF recommended = {} THEN QInt(1)
                     ELSE Q(Cardinality(recommended \cap obj.props), Cardinality(recommended))
    IN  [completeness |-> QAdd(QMul(req_score, Q(7, 10)), QMul(rec_score, Q(3, 10))),
         required_missing |-> required \ obj.props]

\* The quality loop of score_schema over all_objects[i..]: a type is scored
\* once, identity and unknown types are skipped.
RECURSIVE quality_loop(_, _, _)
quality_loop(objects, i, acc) ==
    IF i > Len(objects) THEN acc
    ELSE LET obj == objects[i]
             t == obj.type
             skip == t \in acc.scored_types \/ t \in identity_types
                        \/ t \notin DOMAIN SCHEMA_REQUIRED_PROPS
             c == compute_completeness(obj, t)
         IN  quality_loop(objects, i + 1,
                IF skip THEN acc
                ELSE [scored_types |-> acc.scored_types \cup {t},
                      quality_score |-> QAdd(acc.quality_score, c.completeness),
                      quality_entries |-> acc.quality_entries + 1,
                      findings |-> acc.findings \cup
                          (IF c.required_missing # {}
                           THEN {"incomplete_" \o Lower(t) \o "_schema"} ELSE {})])

variety_pts(type_count) ==
    IF type_count >= 5 THEN 15
    ELSE IF type_count >= 3 THEN 10
    ELSE IF type_count >= 2 THEN 6
    ELSE 2

\* score_schema on the JSON-LD objects of a page; id_type is the identity type
\* the iteration over the set identity_types meets first among those present.
score_schema(objects, id_type) ==
    IF objects = <<>>
    THEN [score |-> QInt(0), findings |-> {"no_jsonld"}]
    ELSE LET all_types == {objects[i].type : i \in 1..Len(objects)}
             valid == \A i \in 1..Len(objects) : objects[i].context
             has_identity == all_types \cap identity_types # {}
             id_obj == objects[CHOOSE i \in 1..Len(objects) :
                           /\ objects[i].type = id_type
                           /\ \A j \in 1..(i - 1) : objects[j].type # id_type]
             identity_pts == IF has_identity
                             THEN QMul(QInt(15), compute_completeness(id_obj, id_type).completeness)
                             ELSE QInt(0)
             q == quality_loop(objects, 1,
                      [scored_types |-> {}, quality_score |-> QInt(0),
                       quality_entries |-> 0, findings |-> {}])
             \* coverage_factor = min(1.0, 0.4 + quality_entries * 0.2)
             coverage_factor == QMin(QInt(1), Q(4 + 2 * q.quality_entries, 10))
             quality_pts == IF q.quality_entries > 0
                            THEN QMul(QMul(QInt(50),
                                     QMul(q.quality_score, Q(1, q.quality_entries))),
                                     coverage_factor)
                            ELSE QInt(0)
             total == QSum(<<QInt(15), IF valid THEN QInt(5) ELSE QInt(0),
                             identity_pts, quality_pts,
                             QInt(variety_pts(Cardinality(all_types)))>>)
         IN  [score |-> safe_score(total),
              findings |-> (IF valid THEN {} ELSE {"invalid_jsonld_structure"})
                              \cup (IF has_identity THEN {} ELSE {"no_organization_schema"})
                              \cup q.findings]

\* The JSON-LD documents of the model: objects of one @type each, with none,
\* the required, or all the listed properties, with or without @context.
MaxSchemaObjects == 2

SchemaTypes == DOMAIN SCHEMA_REQUIRED_PROPS \cup {"Corporation", "Thing"}

SchemaObjects ==
    UNION {{[type |-> t, props |-> ps, context |-> c] :
               ps \in {{}, RequiredProps(t), RequiredProps(t) \cup RecommendedProps(t)},
               c \in BOOLEAN} : t \in SchemaTypes}

SchemaDocs == UNION {[1..n -> SchemaObjects] : n \in 0..MaxSchemaObjects}

(***************************************************************************)
(* pipeline/aggregator.py: weights in hundredths                           *)
(***************************************************************************)
W(content, schema, eeat, technical, entity, ai_visibility) ==
    [content |-> content, schema |-> schema, eeat |-> eeat,
     technical |-> technical, entity |-> entity, ai_visibility |-> ai_visibility]

DEFAULT_WEIGHTS == W(20, 15, 20, 15, 15, 15)

\* A lookup that ignores the industry.
get_weights_default(industry) == DEFAULT_WEIGHTS

INDUSTRY_WEIGHTS ==
    [health |-> W(15, 10, 35, 10, 15, 15),
     medical |-> W(15, 10, 35, 10, 15, 15),
     finance |-> W(15, 10, 30, 10, 20, 15),
     ecommerce |-> W(15, 25, 10, 15, 15, 20),
     saas |-> W(20, 15, 15, 15, 15, 20),
     legal |-> W(15, 10, 35, 10, 15, 15),
     education |-> W(25, 10, 25, 10, 15, 15),
     news |-> W(25, 15, 25, 10, 10, 15),
     local_business |-> W(15, 20, 15, 15, 20, 15)]

\* INDUSTRY_WEIGHTS.get(industry, DEFAULT_WEIGHTS)
get_weights(industry) ==
    IF industry \in DOMAIN INDUSTRY_WEIGHTS THEN INDUSTRY_WEIGHTS[industry]
    ELSE DEFAULT_WEIGHTS

PillarOrder == <<"content", "schema", "eeat", "technical", "entity", "ai_visibility">>

compute_composite(scores, industry) ==
    LET weights == get_weights(industry)
    IN  safe_score(QSum([i \in 1..Len(PillarOrder) |->
            QMul(scores[PillarOrder[i]], Q(weights[PillarOrder[i]], 100))]))

(***************************************************************************)
(* pipeline/recommendations.py                                             *)
(***************************************************************************)
\* The pillar and the priority of each rule (the texts are left out).
RECOMMENDATION_RULES ==
    [ no_h1 |-> [pillar |-> "content", priority |-> "critical"],
     multiple_h1 |-> [pillar |-> "content", priority |-> "high"],
     broken_heading_hierarchy |-> [pillar |-> "content", priority |-> "high"],
     no_faq_section |-> [pillar |-> "content", priority |-> "high"],
     no_lists |-> [pillar |-> "content", priority |-> "medium"],
     no_answer_first |-> [pillar |-> "content", priority |-> "high"],
     few_internal_links |-> [pillar |-> "content", priority |-> "medium"],
     no_citations |-> [pillar |-> "content", priority |-> "critical"],
     no_statistics |-> [pillar |-> "content", priority |-> "critical"],
     no_expert_quotes |-> [pillar |-> "content", priority |-> "high"],
     weak_authoritative_tone |-> [pillar |-> "content", priority |-> "high"],
     poor_readability |-> [pillar |-> "content", priority |-> "medium"],
     no_technical_terms |-> [pillar |-> "content", priority |-> "medium"],
     low_vocabulary_diversity |-> [pillar |-> "content", priority |-> "medium"],
     low_word_count |-> [pillar |-> "content", priority |-> "high"],
     poor_paragraph_structure |-> [pillar |-> "content", priority |-> "medium"],
     keyword_stuffing |-> [pillar |-> "content", priority |-> "critical"],
     no_jsonld |-> [pillar |-> "schema", priority |-> "critical"],
     no_faqpage_schema |-> [pillar |-> "schema", priority |-> "high"],
     no_article_schema |-> [pillar |-> "schema", priority |-> "high"],
     no_organization_schema |-> [pillar |-> "schema", priority |-> "high"],
     invalid_jsonld_structure |-> [pillar |-> "schema", priority |-> "medium"],
     incomplete_article_schema |-> [pillar |-> "schema", priority |-> "high"],
     incomplete_organization_schema |-> [pillar |-> "schema", priority |-> "high"],
     incomplete_faqpage_schema |-> [pillar |-> "schema", priority |-> "high"],
     incomplete_product_schema |-> [pillar |-> "schema", priority |-> "medium"],
     incomplete_blogposting_schema |-> [pillar |-> "schema", priority |-> "high"],
     incomplete_newsarticle_schema |-> [pillar |-> "schema", priority |-> "high"],
     incomplete_howto_schema |-> [pillar |-> "schema", priority |-> "medium"],
     no_author |-> [pillar |-> "eeat", priority |-> "high"],
     no_author_bio |-> [pillar |-> "eeat", priority |-> "medium"],
     no_publish_date |-> [pillar |-> "eeat", priority |-> "medium"],
     no_updated_date |-> [pillar |-> "eeat", priority |-> "medium"],
     few_external_citations |-> [pillar |-> "eeat", priority |-> "high"],
     no_trust_links |-> [pillar |-> "eeat", priority |-> "high"],
     low_source_diversity |-> [pillar |-> "eeat", priority |-> "medium"],
     no_about_page |-> [pillar |-> "eeat", priority |-> "high"],
     no_first_hand_experience |-> [pillar |-> "eeat", priority |-> "high"],
     no_expertise_indicators |-> [pillar |-> "eeat", priority |-> "medium"],
     low_authority |-> [pillar |-> "eeat", priority |-> "high"],
     low_trust_signals |-> [pillar |-> "eeat", priority |-> "high"],
     no_llms_txt |-> [pillar |-> "technical", priority |-> "high"],
     ai_bots_blocked |-> [pillar |-> "technical", priority |-> "critical"],
     no_sitemap |-> [pillar |-> "technical", priority |-> "medium"],
     meta_noindex |-> [pillar |-> "technical", priority |-> "critical"],
     no_https |-> [pillar |-> "technical", priority |-> "high"],
     slow_load_time |-> [pillar |-> "technical", priority |-> "medium"],
     no_viewport |-> [pillar |-> "technical", priority |-> "medium"],
     no_canonical |-> [pillar |-> "technical", priority |-> "medium"],
     brand_not_in_ai |-> [pillar |-> "entity", priority |-> "high"],
     no_social_profiles |-> [pillar |-> "entity", priority |-> "low"],
     no_wikipedia_presence |-> [pillar |-> "entity", priority |-> "medium"],
     crawl_blocked_403 |-> [pillar |-> "technical", priority |-> "critical"],
     crawl_timeout |-> [pillar |-> "technical", priority |-> "critical"]]

PRIORITY_ORDER == [critical |-> 0, high |-> 1, medium |-> 2, low |-> 3]

IMPACT_SCORES ==
    [ no_citations |-> 95,
     no_statistics |-> 90,
     keyword_stuffing |-> 88,
     no_expert_quotes |-> 75,
     weak_authoritative_tone |-> 70,
     poor_readability |-> 60,
     no_technical_terms |-> 50,
     low_vocabulary_diversity |-> 45,
     no_faq_section |-> 72,
     no_answer_first |-> 65,
     low_word_count |-> 55,
     no_h1 |-> 40,
     multiple_h1 |-> 20,
     broken_heading_hierarchy |-> 25,
     no_lists |-> 15,
     poor_paragraph_structure |-> 15,
     few_internal_links |-> 15,
     no_jsonld |-> 85,
     no_faqpage_schema |-> 70,
     no_article_schema |-> 55,
     no_organization_schema |-> 55,
     invalid_jsonld_structure |-> 40,
     incomplete_article_schema |-> 30,
     incomplete_organization_schema |-> 30,
     incomplete_faqpage_schema |-> 30,
     incomplete_product_schema |-> 20,
     incomplete_blogposting_schema |-> 25,
     incomplete_newsarticle_schema |-> 25,
     incomplete_howto_schema |-> 20,
     no_citations_eeat |-> 80,
     few_external_citations |-> 75,
     no_trust_links |-> 70,
     no_first_hand_experience |-> 68,
     low_authority |-> 65,
     low_trust_signals |-> 65,
     no_about_page |-> 50,
     no_author |-> 60,
     no_author_bio |-> 40,
     no_expertise_indicators |-> 45,
     low_source_diversity |-> 35,
     no_publish_date |-> 20,
     no_updated_date |-> 15,
     ai_bots_blocked |-> 92,
     meta_noindex |-> 90,
     no_llms_txt |-> 60,
     no_https |-> 55,
     slow_load_time |-> 45,
     no_sitemap |-> 35,
     no_viewport |-> 20,
     no_canonical |-> 20,
     brand_not_in_ai |-> 65,
     no_wikipedia_presence |-> 50,
     no_social_profiles |-> 15,
     crawl_blocked_403 |-> 98,
     crawl_timeout |-> 96]

MAX_RECOMMENDATIONS == 10

\* IMPACT_SCORES.get(finding, 10)
impact_of(finding) ==
    IF finding \in DOMAIN IMPACT_SCORES THEN IMPACT_SCORES[finding] ELSE 10

\* PRIORITY_ORDER.get(r["priority"], 99)
priority_rank(priority) ==
    IF priority \in DOMAIN PRIORITY_ORDER THEN PRIORITY_ORDER[priority] ELSE 99

\* A key that ranks the priority before the impact.
sort_key_priority_first(r) == <<priority_rank(r.priority), 0 - r.impact_score>>

\* key = lambda r: (-r["impact_score"], PRIORITY_ORDER.get(r["priority"], 99))
sort_key(r) == <<0 - r.impact_score, priority_rank(r.priority)>>

\* Tuple comparison of two keys.
KeyLess(a, b) == a[1] < b[1] \/ (a[1] = b[1] /\ a[2] < b[2])

\* list.sort is stable: a record goes behind the records whose key is not greater.
RECURSIVE insert_sorted(_, _)
insert_sorted(sorted, r) ==
    IF sorted = <<>> THEN <<r>>
    ELSE IF KeyLess(sort_key(r), sort_key(Head(sorted)))
         THEN <<r>> \o sorted
         ELSE <<Head(sorted)>> \o insert_sorted(Tail(sorted), r)

RECURSIVE stable_sort(_, _)
stable_sort(candidates, i) ==
    IF i = 0 THEN <<>>
    ELSE insert_sorted(stable_sort(candidates, i - 1), candidates[i])

\* The findings of the six pillars in the order of the pillar_details dict.
RECURSIVE all_findings(_, _)
all_findings(pillar_details, i) ==
    IF i > Len(PillarOrder) THEN <<>>
    ELSE pillar_details[PillarOrder[i]] \o all_findings(pillar_details, i + 1)

\* One candidate per finding that has a rule: a copy of the rule with its impact.
RECURSIVE candidates_of(_)
candidates_of(findings) ==
    IF findings = <<>> THEN <<>>
    ELSE (IF Head(findings) \in DOMAIN RECOMMENDATION_RULES
          THEN <<[rule |-> Head(findings),
                  pillar |-> RECOMMENDATION_RULES[Head(findings)].pillar,
                  priority |-> RECOMMENDATION_RULES[Head(findings)].priority,
                  impact_score |-> impact_of(Head(findings))]>>
          ELSE <<>>) \o candidates_of(Tail(findings))

\* rec.pop("impact_score", None)
pop_impact(r) == [rule |-> r.rule, pillar |-> r.pillar, priority |-> r.priority]

generate_recommendations(pillar_details) ==
    LET candidates == candidates_of(all_findings(pillar_details, 1))
        sorted == stable_sort(candidates, Len(candidates))
        top == SubSeq(sorted, 1, Min(Len(sorted), MAX_RECOMMENDATIONS))
    IN  [i \in 1..Len(top) |-> pop_impact(top[i])]

(***************************************************************************)
(* pipeline/llm.py: the shared log collector                               *)
(***************************************************************************)
\* _collected_logs is None (no collection open) or a list.
None == [collecting |-> FALSE, list |-> <<>>]

\* start_log_collection: _collected_logs = []
start_log_collection == [collecting |-> TRUE, list |-> <<>>]

\* _log_call: appends when a collection is open, does nothing otherwise.
log_call(logs, entry) ==
    IF logs = None THEN None ELSE [logs EXCEPT !.list = Append(@, entry)]

\* get_collected_logs returns the list (or []); the caller's global becomes None.
get_collected_logs(logs) == IF logs = None THEN <<>> ELSE logs.list

LogEntry(r, n) == [run |-> r, n |-> n]

\* MODELS in dictionary order, and the rotation order.
MODELS == <<"gpt", "claude", "gemini">>

MODEL_ORDER == <<"gemini", "gpt", "claude">>

\* What one request to a provider can end in: a 200 with a well-formed body,
\* another status, requests.Timeout, another transport exception, or a 200
\* whose body is not the expected JSON.
LlmResponses == {"ok", "http_error", "timeout", "transport_error", "malformed"}

\* _pick_model: the preferred provider, or the next of the rotation.
pick_model(preferred, counter) ==
    IF preferred \in {MODELS[i] : i \in 1..Len(MODELS)}
    THEN [model |-> preferred, counter |-> counter]
    ELSE [model |-> MODEL_ORDER[((counter + 1) % Len(MODEL_ORDER)) + 1],
          counter |-> counter + 1]

\* _retry_with_next: every model but the failed one, in the order of MODELS,
\* until one answers 200 with a well-formed body; env[n] answers request n.
RECURSIVE retry_with_next(_, _, _, _, _)
retry_with_next(failed_model, i, env, n, requests) ==
    IF i > Len(MODELS) THEN [text |-> "", requests |-> requests]
    ELSE IF MODELS[i] = failed_model
         THEN retry_with_next(failed_model, i + 1, env, n, requests)
         ELSE IF env[n] = "ok"
              THEN [text |-> "content", requests |-> Append(requests, MODELS[i])]
              ELSE retry_with_next(failed_model, i + 1, env, n + 1,
                                   Append(requests, MODELS[i]))

\* _call_openrouter
call_openrouter(preferred, counter, env) ==
    LET picked == pick_model(preferred, counter)
        res == CASE env[1] = "ok" ->
                        [text |-> "content", requests |-> <<picked.model>>]
                 [] env[1] \in {"http_error", "timeout"} ->
                        retry_with_next(picked.model, 1, env, 2, <<picked.model>>)
                 [] OTHER ->
                        [text |-> "", requests |-> <<picked.model>>]
    IN  [text |-> res.text, requests |-> res.requests, counter |-> picked.counter]

\* _call_gemini_direct: one request, "" on any exception.
call_gemini_direct(counter, env) ==
    [text |-> IF env[1] = "ok" THEN "content" ELSE "",
     requests |-> <<"gemini-direct">>,
     counter |-> counter]

\* ask_llm
ask_llm(k, preferred, counter, env) ==
    IF ~is_available(k) THEN [text |-> "", requests |-> <<>>, counter |-> counter]
    ELSE IF k = "openrouter" THEN call_openrouter(preferred, counter, env)
    ELSE call_gemini_direct(counter, env)

(***************************************************************************)
(* tasks.py: run_single_page_analysis and _run_partial_analysis            *)
(***************************************************************************)
Statuses == {"pending", "crawling", "analyzing", "scoring", "complete", "failed"}

NewRun == [status |-> "pending", progress |-> 0, error_message |-> "",
           llm_logs |-> <<>>, composite_set |-> FALSE]

NoCrawl == [NewCrawlResult EXCEPT !.error = "not fetched"]

\* A persistence call (Model.save, objects.create) returns or raises.
SaveOutcomes == BOOLEAN

\* The _update_status calls of run_single_page_analysis:
\* position -> status, progress, next position.
FullStatusStep(at) ==
    CASE at = "set_crawling" -> [status |-> "crawling", progress |-> 5, to |-> "crawl"]
      [] at = "set_analyzing_15" -> [status |-> "analyzing", progress |-> 15, to |-> "static"]
      [] at = "set_analyzing_30" -> [status |-> "analyzing", progress |-> 30, to |-> "submit"]
      [] at = "set_analyzing_50" -> [status |-> "analyzing", progress |-> 50, to |-> "entity_result"]
      [] at = "set_analyzing_65" -> [status |-> "analyzing", progress |-> 65, to |-> "ai_vis_result"]
      [] at = "set_analyzing_75" -> [status |-> "analyzing", progress |-> 75, to |-> "probes"]
      [] at = "set_scoring_80" -> [status |-> "scoring", progress |-> 80, to |-> "page_score"]
      [] at = "set_scoring_85" -> [status |-> "scoring", progress |-> 85, to |-> "competitors"]

\* A partial path whose first write names the wrong status.
PartialStatusStepPending(at) ==
    CASE at = "p_set_analyzing_20" -> [status |-> "pending", progress |-> 20, to |-> "p_set_analyzing_40"]
      [] at = "p_set_analyzing_40" -> [status |-> "analyzing", progress |-> 40, to |-> "p_technical"]
      [] at = "p_set_analyzing_55" -> [status |-> "analyzing", progress |-> 55, to |-> "p_workers"]
      [] at = "p_set_analyzing_80" -> [status |-> "analyzing", progress |-> 80, to |-> "p_set_scoring_85"]
      [] at = "p_set_scoring_85" -> [status |-> "scoring", progress |-> 85, to |-> "p_page_score"]

\* The _update_status calls of _run_partial_analysis.
PartialStatusStep(at) ==
    CASE at = "p_set_analyzing_20" -> [status |-> "analyzing", progress |-> 20, to |-> "p_set_analyzing_40"]
      [] at = "p_set_analyzing_40" -> [status |-> "analyzing", progress |-> 40, to |-> "p_technical"]
      [] at = "p_set_analyzing_55" -> [status |-> "analyzing", progress |-> 55, to |-> "p_workers"]
      [] at = "p_set_analyzing_80" -> [status |-> "analyzing", progress |-> 80, to |-> "p_set_scoring_85"]
      [] at = "p_set_scoring_85" -> [status |-> "scoring", progress |-> 85, to |-> "p_page_score"]

PartialStatusSteps ==
    {"p_set_analyzing_20", "p_set_analyzing_40", "p_set_analyzing_55",
     "p_set_analyzing_80", "p_set_scoring_85"}

StatusStep(at) ==
    IF at \in PartialStatusSteps THEN PartialStatusStep(at) ELSE FullStatusStep(at)

StatusSteps ==
    {"set_crawling", "set_analyzing_15", "set_analyzing_30", "set_analyzing_50",
     "set_analyzing_65", "set_analyzing_75", "set_scoring_80", "set_scoring_85"}
        \cup PartialStatusSteps

Goto(r, to) == pc' = [pc EXCEPT ![r] = to]

\* The competitor of a run: discovered and validated or not, its fetch, and
\* the rows the run holds for it.
NoCompetitor ==
    [validated |-> FALSE, fetch_ok |-> FALSE, saved |-> FALSE,
     created |-> FALSE, scored |-> FALSE, page_score |-> FALSE]

NewHist ==
    [starts |-> 0, drains |-> 0, writes |-> 0, composite |-> FALSE, recs |-> FALSE,
     appended |-> {}, stored |-> {}, used |-> {}, competitor |-> NoCompetitor]

\* One more row of the run has been written.
Written(r) == hist' = [hist EXCEPT ![r].writes = @ + 1]

\* The findings _run_partial_analysis appends to technical_details after
\* the PageScore is created.
orchestrator_findings(c) ==
    IF c.status_code = 403 THEN {"crawl_blocked_403"}
    ELSE IF c.error = "Request timed out" THEN {"crawl_timeout"}
    ELSE {}

\* The keyword parameters score_eeat accepts besides crawl.
score_eeat_params == {}

\* _score_competitor_static(url): (None, 0.0) for a failed fetch; otherwise
\* content, schema, then score_eeat(crawl, skip_gemini=True), a TypeError
\* unless score_eeat has that parameter.  invoked lists the scorers whose
\* body ran, llm_requests the requests sent through ask_llm.
score_competitor_static(fetch_ok) ==
    IF ~fetch_ok
    THEN [raised |-> FALSE, page_data |-> FALSE, invoked |-> <<>>, llm_requests |-> 0]
    ELSE IF "skip_gemini" \notin score_eeat_params
         THEN [raised |-> TRUE, page_data |-> FALSE,
               invoked |-> <<"content", "schema">>, llm_requests |-> 0]
         ELSE [raised |-> FALSE, page_data |-> TRUE,
               invoked |-> <<"content", "schema", "eeat", "technical">>,
               llm_requests |-> 0]

\* pipeline/competitors.py score_competitor(url): the same steps with
\* score_eeat(crawl), whose _gemini_eeat_analysis calls ask_llm; ask_llm
\* sends a request whenever a key is set.
score_competitor(fetch_ok, k) ==
    IF ~fetch_ok
    THEN [raised |-> FALSE, page_data |-> FALSE, invoked |-> <<>>, llm_requests |-> 0]
    ELSE [raised |-> FALSE, page_data |-> TRUE,
          invoked |-> <<"content", "schema", "eeat", "technical">>,
          llm_requests |-> IF is_available(k) THEN 1 ELSE 0]

\* One future of the competitor pool: future.result() re-raises what
\* _score_comp raised, before Competitor.objects.create; every exception is
\* caught and logged.
score_comp(fetch_ok, saved) ==
    LET res == score_competitor_static(fetch_ok)
        created == ~res.raised /\ saved
    IN  [validated |-> TRUE, fetch_ok |-> fetch_ok, saved |-> saved,
         created |-> created,
         scored |-> created /\ res.page_data,
         page_score |-> created /\ res.page_data]

\* discover_competitors: the number of validated competitors; the list comes
\* from an LLM answer, and ask_llm answers "" when no key is set.
MaxCompetitors == 1

discover_competitors(k) == IF is_available(k) THEN 0..MaxCompetitors ELSE {0}

\* An exception raised by `call` propagates to the except clause of
\* run_single_page_analysis.
Raise(r, call) ==
    /\ Goto(r, "except")
    /\ exc' = [exc EXCEPT ![r] = call]

\* _update_status(run, status, progress): assigns, then saves the two fields.
UpdateStatus(r) ==
    /\ pc[r] \in StatusSteps
    /\ LET s == StatusStep(pc[r])
       IN  /\ run' = [run EXCEPT ![r].status = s.status, ![r].progress = s.progress]
           /\ \E saved \in SaveOutcomes :
                IF saved
                THEN /\ db' = [db EXCEPT ![r].status = s.status, ![r].progress = s.progress]
                     /\ Goto(r, s.to)
                     /\ exc' = exc
                     /\ Written(r)
                ELSE /\ db' = db
                     /\ Raise(r, "save")
                     /\ hist' = hist
    /\ UNCHANGED <<fnVars, envVars, crawl, pillar, fut, page_score, ncalls, collected_logs>>

\* start_log_collection() at the top of run_single_page_analysis.
StartCollect(r) ==
    /\ pc[r] = "start"
    /\ collected_logs' = start_log_collection
    /\ hist' = [hist EXCEPT ![r].starts = @ + 1]
    /\ Goto(r, "set_crawling")
    /\ UNCHANGED <<fnVars, envVars, run, db, crawl, pillar, fut, page_score, exc, ncalls>>

\* The environments of the primary fetch of a run: the same answer to every attempt.
RunResponses ==
    {HttpResponse(200), HttpResponse(403), HttpResponse(503),
     [kind |-> "timeout", code |-> 0], [kind |-> "request_exception", code |-> 0]}

RunCrawlEnvs == {[i \in 1..(MAX_RETRIES + 1) |-> resp] : resp \in RunResponses}

\* crawl = crawl_page(run.url); a failed fetch enters _run_partial_analysis.
Crawl(r) ==
    /\ pc[r] = "crawl"
    /\ \E env \in RunCrawlEnvs :
         /\ crawl' = [crawl EXCEPT ![r] = crawl_page(env)]
         /\ Goto(r, IF CrawlOk(crawl_page(env)) THEN "set_analyzing_15" ELSE "p_start")
    /\ UNCHANGED <<fnVars, envVars, run, db, pillar, fut, page_score, exc, ncalls, collected_logs, hist>>

\* The static pillars of the full path, called in this order outside any try.
StaticOrder == <<"content", "schema", "technical">>

\* score_content, score_schema, score_technical: each returns or raises; the
\* first one to raise (0 = none) ends the try block.
StaticPillars(r) ==
    /\ pc[r] = "static"
    /\ \E raiser \in 0..Len(StaticOrder) :
         /\ pillar' = [pillar EXCEPT ![r] =
                [p \in Pillars |->
                    IF \E i \in 1..Len(StaticOrder) :
                          StaticOrder[i] = p /\ (raiser = 0 \/ i < raiser)
                    THEN "scored" ELSE @[p]]]
         /\ IF raiser = 0
            THEN Goto(r, "set_analyzing_30") /\ exc' = exc
            ELSE Raise(r, "score_" \o StaticOrder[raiser])
    /\ UNCHANGED <<fnVars, envVars, run, db, crawl, fut, page_score, ncalls, collected_logs, hist>>

\* The three LLM pillars are submitted to the thread pool.
Submit(r) ==
    /\ pc[r] = "submit"
    /\ fut' = [fut EXCEPT ![r] = [p \in LlmPillars |-> "running"]]
    /\ Goto(r, "eeat_result")
    /\ UNCHANGED <<fnVars, envVars, run, db, crawl, pillar, page_score, exc, ncalls, collected_logs, hist>>

\* One LLM call of the run (a pillar worker, or competitor discovery): the
\* call is recorded by _log_call under the lock.
LlmCall(r) ==
    /\ \/ \E p \in LlmPillars : fut[r][p] = "running"
       \/ pc[r] = "competitors"
    /\ is_available(keys)
    /\ ncalls[r] < MaxLlmCalls
    /\ ncalls' = [ncalls EXCEPT ![r] = @ + 1]
    /\ collected_logs' = log_call(collected_logs, LogEntry(r, ncalls[r] + 1))
    /\ UNCHANGED <<fnVars, envVars, pc, run, db, crawl, pillar, fut, page_score, exc, hist>>

\* A pillar worker ends; its future holds a result or an exception.
WorkerDone(r, p) ==
    /\ fut[r][p] = "running"
    /\ fut' = [fut EXCEPT ![r][p] = "done"]
    /\ UNCHANGED <<fnVars, envVars, pc, run, db, crawl, pillar, page_score, exc, ncalls, collected_logs, hist>>

\* An orchestrator that awaits the eeat future only.
ResultStepSkipping(at) ==
    CASE at = "eeat_result" -> [pillar |-> "eeat", to |-> "set_analyzing_75"]
      [] at = "entity_result" -> [pillar |-> "entity", to |-> "set_analyzing_65"]
      [] at = "ai_vis_result" -> [pillar |-> "ai_visibility", to |-> "set_analyzing_75"]

\* The future.result() calls: position -> pillar awaited, next position.
ResultStep(at) ==
    CASE at = "eeat_result" -> [pillar |-> "eeat", to |-> "set_analyzing_50"]
      [] at = "entity_result" -> [pillar |-> "entity", to |-> "set_analyzing_65"]
      [] at = "ai_vis_result" -> [pillar |-> "ai_visibility", to |-> "set_analyzing_75"]

ResultSteps == {"eeat_result", "entity_result", "ai_vis_result"}

\* try: score, details = future.result()  except Exception: details = {"error": ...}
FutureResult(r) ==
    /\ pc[r] \in ResultSteps
    /\ LET s == ResultStep(pc[r])
       IN  /\ fut[r][s.pillar] = "done"
           /\ \E raised \in BOOLEAN :
                pillar' = [pillar EXCEPT ![r][s.pillar] =
                              IF raised THEN "error" ELSE "scored"]
           /\ Goto(r, s.to)
    /\ UNCHANGED <<fnVars, envVars, run, db, crawl, fut, page_score, exc, ncalls, collected_logs, hist>>

\* A step that only creates child records: position -> next position.
CreateStep(at) ==
    CASE at = "probes" -> "set_scoring_80"
      [] at = "recs" -> "set_scoring_85"
      [] at = "p_recs" -> "p_finalize"

CreateSteps == {"probes", "recs", "p_recs"}

\* AIVisibilityProbe.objects.create / Recommendation.objects.create loops.
CreateRecords(r) ==
    /\ pc[r] \in CreateSteps
    /\ LET recs == pc[r] \in {"recs", "p_recs"}
           \* technical_details["findings"].append(...) on the partial path,
           \* then generate_recommendations(pillar_details)
           findings == IF pc[r] = "p_recs"
                       THEN hist[r].appended \cup orchestrator_findings(crawl[r])
                       ELSE hist[r].appended
           h == IF recs
                THEN [hist[r] EXCEPT !.appended = findings, !.used = findings, !.recs = TRUE]
                ELSE hist[r]
       IN  \E saved \in SaveOutcomes :
             IF saved
             THEN /\ Goto(r, CreateStep(pc[r]))
                  /\ exc' = exc
                  /\ hist' = [hist EXCEPT ![r] = [h EXCEPT !.writes = @ + 1]]
             ELSE /\ Raise(r, "create")
                  /\ hist' = [hist EXCEPT ![r] = h]
    /\ UNCHANGED <<fnVars, envVars, run, db, crawl, pillar, fut, page_score, ncalls, collected_logs>>

PageScoreStep(at) == IF at = "page_score" THEN "recs" ELSE "p_recs"

\* compute_composite and PageScore.objects.create with the six local results;
\* a pillar whose local was never assigned keeps its initial 0.0 and {}.
CreatePageScore(r) ==
    /\ pc[r] \in {"page_score", "p_page_score"}
    /\ \E saved \in SaveOutcomes :
         IF saved
         THEN /\ page_score' = [page_score EXCEPT ![r] = pillar[r]]
              /\ hist' = [hist EXCEPT ![r].composite = TRUE,
                                      ![r].stored = hist[r].appended,
                                      ![r].writes = @ + 1]
              /\ Goto(r, PageScoreStep(pc[r]))
              /\ exc' = exc
         ELSE /\ page_score' = page_score
              /\ hist' = [hist EXCEPT ![r].composite = TRUE]
              /\ Raise(r, "create")
    /\ UNCHANGED <<fnVars, envVars, run, db, crawl, pillar, fut, ncalls, collected_logs>>

\* Competitor discovery and scoring: every exception is caught inside.
Competitors(r) ==
    /\ pc[r] = "competitors"
    /\ \E n \in discover_competitors(keys) :
         IF n = 0
         THEN hist' = hist
         ELSE \E fetch_ok \in BOOLEAN : \E saved \in SaveOutcomes :
                LET comp == score_comp(fetch_ok, saved)
                IN  hist' = [hist EXCEPT ![r].competitor = comp,
                                        ![r].writes = @ + (IF comp.created THEN 1 ELSE 0)]
    /\ Goto(r, "finalize")
    /\ UNCHANGED <<fnVars, envVars, run, db, crawl, pillar, fut, page_score, exc, ncalls, collected_logs>>

\* _run_partial_analysis opens a new collection; content, schema and eeat
\* are forced to 0.0 with checks.crawl_failed.
PartialStart(r) ==
    /\ pc[r] = "p_start"
    /\ collected_logs' = start_log_collection
    /\ pillar' = [pillar EXCEPT ![r] =
            [p \in Pillars |-> IF p \in {"content", "schema", "eeat"} THEN "forced0" ELSE @[p]]]
    /\ hist' = [hist EXCEPT ![r].starts = @ + 1]
    /\ Goto(r, "p_set_analyzing_20")
    /\ UNCHANGED <<fnVars, envVars, run, db, crawl, fut, page_score, exc, ncalls>>

\* technical_score_val, technical_details = score_technical(crawl), outside any try.
PartialTechnical(r) ==
    /\ pc[r] = "p_technical"
    /\ \E raised \in BOOLEAN :
         IF raised
         THEN pillar' = pillar /\ Raise(r, "score_technical")
         ELSE /\ pillar' = [pillar EXCEPT ![r]["technical"] = "scored"]
              /\ Goto(r, "p_set_analyzing_55")
              /\ exc' = exc
    /\ UNCHANGED <<fnVars, envVars, run, db, crawl, fut, page_score, ncalls, collected_logs, hist>>

\* score_entity and score_ai_visibility return (0.0, {"error": crawl.error})
\* at once for a crawl that is not ok: no LLM call is made.
PartialWorkers(r) ==
    /\ pc[r] = "p_workers"
    /\ pillar' = [pillar EXCEPT ![r] =
            [p \in Pillars |-> IF p \in {"entity", "ai_visibility"} THEN "error" ELSE @[p]]]
    /\ Goto(r, "p_set_analyzing_80")
    /\ UNCHANGED <<fnVars, envVars, run, db, crawl, fut, page_score, exc, ncalls, collected_logs, hist>>

PartialNote(c) ==
    "Partial results: " \o c.error \o ". Content, schema, and E-E-A-T could not be analyzed."

\* Finalization of either path: the fields are assigned, the collection is
\* drained, then the whole object is saved.
Finalize(r) ==
    /\ pc[r] \in {"finalize", "p_finalize"}
    /\ LET obj == [run[r] EXCEPT
                      !.composite_set = TRUE,
                      !.status = "complete",
                      !.progress = 100,
                      !.error_message = IF pc[r] = "p_finalize" THEN PartialNote(crawl[r]) ELSE @,
                      !.llm_logs = get_collected_logs(collected_logs)]
       IN  /\ run' = [run EXCEPT ![r] = obj]
           /\ collected_logs' = None
           /\ \E saved \in SaveOutcomes :
                IF saved
                THEN /\ db' = [db EXCEPT ![r] = obj]
                     /\ Goto(r, "done")
                     /\ exc' = exc
                     /\ hist' = [hist EXCEPT ![r].drains = @ + 1, ![r].writes = @ + 1]
                ELSE /\ db' = db
                     /\ Raise(r, "save")
                     /\ hist' = [hist EXCEPT ![r].drains = @ + 1]
    /\ UNCHANGED <<fnVars, envVars, crawl, pillar, fut, page_score, ncalls>>

\* except Exception as exc: the run is marked failed and saved whole; when
\* this save raises too, the thread dies with the row as it was.  The with
\* block of the thread pool joins its workers before the exception leaves it.
Except(r) ==
    /\ pc[r] = "except"
    /\ \A p \in LlmPillars : fut[r][p] # "running"
    /\ LET obj == [run[r] EXCEPT !.status = "failed", !.error_message = exc[r]]
       IN  /\ run' = [run EXCEPT ![r] = obj]
           /\ \E saved \in SaveOutcomes :
                IF saved
                THEN db' = [db EXCEPT ![r] = obj] /\ Goto(r, "done") /\ Written(r)
                ELSE db' = db /\ Goto(r, "crashed") /\ hist' = hist
    /\ UNCHANGED <<fnVars, envVars, crawl, pillar, fut, page_score, exc, ncalls, collected_logs>>

RunStep(r) ==
    \/ StartCollect(r)
    \/ UpdateStatus(r)
    \/ Crawl(r)
    \/ StaticPillars(r)
    \/ Submit(r)
    \/ LlmCall(r)
    \/ \E p \in LlmPillars : WorkerDone(r, p)
    \/ FutureResult(r)
    \/ CreateRecords(r)
    \/ CreatePageScore(r)
    \/ Competitors(r)
    \/ PartialStart(r)
    \/ PartialTechnical(r)
    \/ PartialWorkers(r)
    \/ Finalize(r)
    \/ Except(r)

RunInit ==
    /\ pc = [r \in Runs |-> "start"]
    /\ run = [r \in Runs |-> NewRun]
    /\ db = [r \in Runs |-> NewRun]
    /\ crawl = [r \in Runs |-> NoCrawl]
    /\ pillar = [r \in Runs |-> [p \in Pillars |-> "unset"]]
    /\ fut = [r \in Runs |-> [p \in LlmPillars |-> "none"]]
    /\ page_score = [r \in Runs |-> NoRecord]
    /\ exc = [r \in Runs |-> "none"]
    /\ ncalls = [r \in Runs |-> 0]
    /\ collected_logs = None
    /\ hist = [r \in Runs |-> NewHist]

\* No scorer and no function is under execution.
IdleScorer == [name |-> "none", mode |-> "none", phase |-> "idle"]

FnIdle ==
    /\ sc = IdleScorer
    /\ input = <<>>
    /\ output = <<>>

\* No thread is inside _pick_model; the counter is at its initial 0.
IdlePicker == [pc |-> "idle", seen |-> 0, provider |-> "none"]

NumPickers == 3

Pickers == 1..NumPickers

GwIdle ==
    /\ call_counter = 0
    /\ availability_cache = "None"
    /\ picker = [t \in Pickers |-> IdlePicker]

EnvIdle == keys = "none" /\ GwIdle

Init == RunInit /\ FnIdle /\ keys \in KeyConfigs /\ GwIdle

Next == \E r \in {1} : RunStep(r)

Spec == Init /\ [][Next]_vars

NextConcurrent == \E r \in Runs : RunStep(r)

\* One run whose thread is scheduled as long as it has a step to take.
SpecLive == Init /\ [][Next]_vars /\ WF_vars(Next)

\* Two runs in a process whose environment holds the OpenRouter key.
InitConcurrent == RunInit /\ FnIdle /\ keys = "openrouter" /\ GwIdle

SpecConcurrent == InitConcurrent /\ [][NextConcurrent]_vars

(***************************************************************************)
(* One pillar scorer at work, and the local of the orchestrator that       *)
(* receives its result and is persisted in the PageScore.                  *)
(***************************************************************************)
NewScorer(name, mode) ==
    [name |-> name, mode |-> mode, phase |-> "running", at |-> 1,
     score |-> QInt(0), sub |-> QInt(0), mentioned |-> FALSE, emitted |-> {},
     result |-> QInt(0), local |-> QInt(0)]

ScoreInit ==
    /\ RunInit
    /\ GwIdle
    /\ keys \in KeyConfigs
    /\ output = <<>>
    /\ \E name \in Pillars : \E mode \in ModesWith(name, keys) :
         /\ sc = NewScorer(name, mode)
         /\ input \in IF name = "schema" /\ mode = "ok" THEN SchemaDocs ELSE {<<>>}

\* The next check of the scorer takes one of its branches.
ScoreCheck ==
    /\ sc.phase = "running"
    /\ sc.at <= Len(Checks(sc.name, sc.mode))
    /\ \E b \in Checks(sc.name, sc.mode)[sc.at] :
         sc' = [sc EXCEPT !.at = @ + 1,
                          !.score = IF b.sub THEN @ ELSE QAdd(@, b.pts),
                          !.sub = IF b.sub THEN QAdd(@, b.pts) ELSE @,
                          !.mentioned = @ \/ b.mention,
                          !.emitted = b.emits]
    /\ UNCHANGED <<runVars, envVars, input, output>>

\* The scorer returns; the orchestrator assigns the result to its local.
ScoreReturn ==
    /\ sc.phase = "running"
    /\ ~(sc.name = "schema" /\ sc.mode = "ok")
    /\ sc.at > Len(Checks(sc.name, sc.mode))
    /\ LET res == Returned(sc.name, sc.mode, sc.score, sc.sub)
       IN  sc' = [sc EXCEPT !.phase = "returned",
                            !.emitted = FinalFindings(sc.name, sc.mode, sc.mentioned),
                            !.result = res,
                            !.local = res]
    /\ UNCHANGED <<runVars, envVars, input, output>>

\* score_schema on the page's JSON-LD.
ScoreSchema ==
    /\ sc.phase = "running"
    /\ sc.name = "schema" /\ sc.mode = "ok"
    /\ LET present == {input[i].type : i \in 1..Len(input)} \cap identity_types
       IN  \E id_type \in IF present = {} THEN {"Organization"} ELSE present :
             LET res == score_schema(input, id_type)
             IN  sc' = [sc EXCEPT !.phase = "returned",
                                  !.emitted = res.findings,
                                  !.result = res.score,
                                  !.local = res.score]
    /\ UNCHANGED <<runVars, envVars, input, output>>

\* An LLM pillar's scorer raises in its worker: the orchestrator keeps the
\* 0.0 the local was initialized with and records {"error": ...}.
ScoreRaise ==
    /\ sc.phase = "running"
    /\ sc.name \in LlmPillars
    /\ sc.mode # "not_ok"
    /\ sc' = [sc EXCEPT !.phase = "raised", !.emitted = {}, !.local = QInt(0)]
    /\ UNCHANGED <<runVars, envVars, input, output>>

\* _run_partial_analysis does not call the content, schema and eeat scorers:
\* their locals are forced to 0.0.
ScoreForced ==
    /\ sc.phase = "running"
    /\ sc.name \in {"content", "schema", "eeat"}
    /\ sc.mode = "not_ok"
    /\ sc' = [sc EXCEPT !.phase = "forced", !.local = QInt(0)]
    /\ UNCHANGED <<runVars, envVars, input, output>>

ScoreNext ==
    \/ ScoreCheck
    \/ ScoreReturn
    \/ ScoreSchema
    \/ ScoreRaise
    \/ ScoreForced

SpecScore == ScoreInit /\ [][ScoreNext]_vars

(***************************************************************************)
(* ask_llm against every environment                                       *)
(***************************************************************************)
\* One request for each model at most.
MaxRequests == Len(MODELS)

LlmInit ==
    /\ RunInit
    /\ GwIdle
    /\ sc = IdleScorer
    /\ keys \in KeyConfigs
    /\ input \in [preferred : {"none", "gpt", "claude", "gemini"},
                  env : [1..MaxRequests -> LlmResponses]]
    /\ output = <<>>

AskLlm ==
    /\ output = <<>>
    /\ LET res == ask_llm(keys, input.preferred, call_counter, input.env)
       IN  /\ output' = <<[text |-> res.text, requests |-> res.requests]>>
           /\ call_counter' = res.counter
    /\ UNCHANGED <<runVars, sc, input, keys, availability_cache, picker>>

SpecLlm == LlmInit /\ [][AskLlm]_vars

(***************************************************************************)
(* Threads that call is_available and _pick_model at the same time         *)
(***************************************************************************)
PickInit ==
    /\ RunInit
    /\ FnIdle
    /\ GwIdle
    /\ keys \in KeyConfigs

\* is_available(): the cache is read, and computed and stored when it is None.
CheckAvailable(t) ==
    /\ picker[t].pc = "idle"
    /\ IF availability_cache # "None"
       THEN availability_cache' = availability_cache
       ELSE availability_cache' = IF is_available(keys) THEN "True" ELSE "False"
    /\ picker' = [picker EXCEPT ![t].pc =
                     IF availability_cache' = "True" THEN "load" ELSE "done"]
    /\ UNCHANGED <<runVars, fnVars, keys, call_counter>>

\* _call_counter += 1 reads the global ...
PickLoad(t) ==
    /\ picker[t].pc = "load"
    /\ picker' = [picker EXCEPT ![t].pc = "store", ![t].seen = call_counter]
    /\ UNCHANGED <<runVars, fnVars, keys, call_counter, availability_cache>>

\* ... and stores the sum; no lock is held in between.
PickStore(t) ==
    /\ picker[t].pc = "store"
    /\ call_counter' = picker[t].seen + 1
    /\ picker' = [picker EXCEPT ![t].pc = "index"]
    /\ UNCHANGED <<runVars, fnVars, keys, availability_cache>>

\* provider = MODEL_ORDER[_call_counter % len(MODEL_ORDER)]
PickIndex(t) ==
    /\ picker[t].pc = "index"
    /\ picker' = [picker EXCEPT ![t].pc = "done",
                               ![t].provider = MODEL_ORDER[(call_counter % Len(MODEL_ORDER)) + 1]]
    /\ UNCHANGED <<runVars, fnVars, keys, call_counter, availability_cache>>

PickNext ==
    \E t \in Pickers :
        \/ CheckAvailable(t)
        \/ PickLoad(t)
        \/ PickStore(t)
        \/ PickIndex(t)

SpecPick == PickInit /\ [][PickNext]_vars

(***************************************************************************)
(* crawl_page against every environment                                    *)
(***************************************************************************)
CrawlInit ==
    /\ RunInit
    /\ EnvIdle
    /\ sc = IdleScorer
    /\ input \in CrawlEnvs
    /\ output = <<>>

CrawlPage ==
    /\ output = <<>>
    /\ output' = <<crawl_page(input)>>
    /\ UNCHANGED <<runVars, envVars, sc, input>>

SpecCrawl == CrawlInit /\ [][CrawlPage]_vars

(***************************************************************************)
(* compute_composite on pillar scores and an industry                      *)
(***************************************************************************)
\* Pillar scores handed to the aggregator, two of them outside [0, 100].
ScoreSamples == {0 - 20, 35, 100, 140}

\* The industry argument: every profile, the default, and an unknown name.
IndustryArgs == DOMAIN INDUSTRY_WEIGHTS \cup {"default", "travel"}

AggregateInit ==
    /\ RunInit
    /\ EnvIdle
    /\ sc = IdleScorer
    /\ input \in [scores : [Pillars -> {QInt(v) : v \in ScoreSamples}],
                  industry : IndustryArgs]
    /\ output = <<>>

ComputeComposite ==
    /\ output = <<>>
    /\ output' = <<compute_composite(input.scores, input.industry)>>
    /\ UNCHANGED <<runVars, envVars, sc, input>>

SpecAggregate == AggregateInit /\ [][ComputeComposite]_vars

(***************************************************************************)
(* generate_recommendations on the findings of the six pillars             *)
(***************************************************************************)
\* The findings a page may have, in the order their pillars append them; one
\* key has no rule and one is appended by two pillars.
FindingsMenu ==
    << <<"content", "no_h1">>,
       <<"content", "no_lists">>,
       <<"content", "no_citations">>,
       <<"content", "no_technical_terms">>,
       <<"schema", "invalid_jsonld_structure">>,
       <<"schema", "incomplete_website_schema">>,
       <<"schema", "incomplete_product_schema">>,
       <<"eeat", "no_about_page">>,
       <<"eeat", "no_author_bio">>,
       <<"technical", "no_https">>,
       <<"entity", "brand_not_in_ai">>,
       <<"entity", "no_social_profiles">>,
       <<"ai_visibility", "brand_not_in_ai">> >>

\* The findings list of pillar p when the menu entries chosen are appended.
RECURSIVE findings_from(_, _, _)
findings_from(chosen, p, i) ==
    IF i > Len(FindingsMenu) THEN <<>>
    ELSE (IF i \in chosen /\ FindingsMenu[i][1] = p THEN <<FindingsMenu[i][2]>> ELSE <<>>)
            \o findings_from(chosen, p, i + 1)

RecommendInit ==
    /\ RunInit
    /\ EnvIdle
    /\ sc = IdleScorer
    /\ \E chosen \in SUBSET (1..Len(FindingsMenu)) :
         input = [p \in Pillars |-> findings_from(chosen, p, 1)]
    /\ output = <<>>

GenerateRecommendations ==
    /\ output = <<>>
    /\ output' = <<generate_recommendations(input)>>
    /\ UNCHANGED <<runVars, envVars, sc, input>>

SpecRecommend == RecommendInit /\ [][GenerateRecommendations]_vars

(***************************************************************************)
(* Properties of the run orchestrator                                      *)
(***************************************************************************)
StatusRank(s) ==
    CASE s = "pending" -> 0
      [] s = "crawling" -> 1
      [] s = "analyzing" -> 2
      [] s = "scoring" -> 3
      [] s = "complete" -> 4
      [] s = "failed" -> 4

Terminal(s) == s \in {"complete", "failed"}

Fetched(r) == crawl[r] # NoCrawl

\* C1: every write of a run's persisted status keeps it or moves it forward
\* along pending, crawling, analyzing, scoring, complete, or sets it to
\* failed; a persisted complete or failed status is never changed again.
C1_StatusOnlyMovesForward ==
    [][\A r \in Runs :
          db'[r].status # db[r].status =>
              /\ ~Terminal(db[r].status)
              /\ \/ db'[r].status = "failed"
                 \/ StatusRank(db'[r].status) > StatusRank(db[r].status)]_vars

\* Both runs have ended, one through the partial path to complete and one
\* through the except clause to failed after reaching the scoring stage.
C1_Witness ==
    /\ pc[1] = "done" /\ db[1].status = "complete" /\ ~CrawlOk(crawl[1])
    /\ pc[2] = "done" /\ db[2].status = "failed" /\ page_score[2] # NoRecord

\* C2: a persisted progress of 100 occurs only together with status complete.
C2_Progress100OnlyWithComplete ==
    \A r \in Runs : db[r].progress = 100 => db[r].status = "complete"

\* The other half of C2, which the code keeps: no write lowers the persisted progress.
ProgressNeverDecreases ==
    [][\A r \in Runs : db'[r].progress >= db[r].progress]_vars

ScorerRaised(r, p) == pillar[r][p] = "error" \/ exc[r] = "score_" \o p

\* C3: in a run whose crawl succeeded and in which nothing but a pillar scorer
\* raised, the run ends complete and the PageScore records the raising
\* pillar with its error detail.
C3_ScorerFailureIsIsolated ==
    \A r \in Runs : \A p \in Pillars :
        (/\ pc[r] = "done"
         /\ CrawlOk(crawl[r])
         /\ ScorerRaised(r, p)
         /\ exc[r] \notin {"save", "create"})
            => /\ db[r].status = "complete"
               /\ page_score[r] # NoRecord
               /\ page_score[r][p] = "error"

\* C4: a run whose primary fetch failed is never persisted as failed.
C4_FetchFailureNeverFails ==
    \A r \in Runs :
        (Fetched(r) /\ ~CrawlOk(crawl[r])) => db[r].status # "failed"

\* The calls a run made, in order, as _log_call records them.
CallsOf(r) == [n \in 1..ncalls[r] |-> LogEntry(r, n)]

\* C10: the llm_logs persisted by a completed run are exactly the calls that
\* run made, none of another run and none missing.
C10_LogsScopedPerRun ==
    \A r \in Runs : db[r].status = "complete" => db[r].llm_logs = CallsOf(r)

(***************************************************************************)
(* Properties of the scorers                                               *)
(***************************************************************************)
\* C6: every score a scorer returns, and every value of the orchestrator's
\* local that a PageScore persists (returned, defaulted after a failure, or
\* forced on the partial path), lies in [0, 100].
C6_ScoresInRange ==
    /\ sc.phase = "returned" => InRange(sc.result)
    /\ sc.phase \in {"returned", "raised", "forced"} => InRange(sc.local)

\* A scorer has returned after its raw total left [0, 100].
C6_Witness ==
    /\ sc.phase = "returned"
    /\ sc.mode # "not_ok"
    /\ sc.name # "schema"
    /\ ~InRange(RawTotal(sc.name, sc.mode, sc.score, sc.sub))
    /\ InRange(sc.local)

(***************************************************************************)
(* Properties of crawl_page                                                *)
(***************************************************************************)
IsStatus(resp, codes) == resp.kind = "http" /\ resp.code \in codes

Transient(resp) ==
    resp.kind \in {"timeout", "connection"} \/ IsStatus(resp, {429, 500, 502, 503, 504})

IndustryNames ==
    {"health", "medical", "finance", "ecommerce", "saas", "legal", "education",
     "news", "local_business"}

WeightSum(w) ==
    w.content + w.schema + w.eeat + w.technical + w.entity + w.ai_visibility

WeightedSum(scores, w) ==
    QSum(<<QMul(scores.content, Q(w.content, 100)),
           QMul(scores.schema, Q(w.schema, 100)),
           QMul(scores.eeat, Q(w.eeat, 100)),
           QMul(scores.technical, Q(w.technical, 100)),
           QMul(scores.entity, Q(w.entity, 100)),
           QMul(scores.ai_visibility, Q(w.ai_visibility, 100))>>)

Clamped(q) == IF QLt(q, QInt(0)) THEN QInt(0) ELSE IF QLt(QInt(100), q) THEN QInt(100) ELSE q

\* C7: the default profile and each of the nine industry profiles sum to 1.0
\* (100 hundredths), and compute_composite returns the weighted sum under the
\* profile of its industry argument, the default for any other name, clamped
\* to [0, 100].
C7_WeightedComposite ==
    /\ WeightSum(DEFAULT_WEIGHTS) = 100
    /\ DOMAIN INDUSTRY_WEIGHTS = IndustryNames
    /\ \A i \in IndustryNames : WeightSum(INDUSTRY_WEIGHTS[i]) = 100
    /\ output # <<>> =>
         LET w == IF input.industry \in IndustryNames
                  THEN INDUSTRY_WEIGHTS[input.industry] ELSE DEFAULT_WEIGHTS
         IN  output[1] = Clamped(WeightedSum(input.scores, w))

\* A composite under the health profile that differs from the one the default
\* profile gives, strictly inside the range.
C7_Witness ==
    /\ output # <<>>
    /\ input.industry = "health"
    /\ output[1] # Clamped(WeightedSum(input.scores, DEFAULT_WEIGHTS))
    /\ QLt(QInt(0), output[1]) /\ QLt(output[1], QInt(100))

(***************************************************************************)
(* Properties of the recommendation engine                                 *)
(***************************************************************************)
RuleKeys == DOMAIN RECOMMENDATION_RULES

\* The findings of the input that have a rule, as a sequence.
InputCandidates == SelectSeq(all_findings(input, 1), LAMBDA f : f \in RuleKeys)

Count(seq, x) == Cardinality({i \in 1..Len(seq) : seq[i] = x})

ReturnedRules == [i \in 1..Len(output[1]) |-> output[1][i].rule]

PositionOf(seq, x) == CHOOSE i \in 1..Len(seq) : seq[i] = x

C29_NoDuplicateRecommendations ==
    output # <<>> => \A k \in RuleKeys : Count(ReturnedRules, k) <= 1

\* The findings the orchestrator appends on the partial path.
OrchestratorFindings == {"crawl_blocked_403", "crawl_timeout"}

\* C9: every finding a scorer or the orchestrator appends has a rule.
C9_EveryFindingHasRule ==
    /\ OrchestratorFindings \subseteq RuleKeys
    /\ sc.phase # "idle" => sc.emitted \subseteq RuleKeys

(***************************************************************************)
(* Properties of the partial-analysis path                                 *)
(***************************************************************************)
\* The points the auxiliary-file checks (llms.txt 20, robots.txt 20,
\* sitemap.xml 10) and the HTTPS check (5) can add up to.
AuxPoints == {a + b + c + d : a \in {0, 20}, b \in {0, 20}, c \in {0, 10}, d \in {0, 5}}

\* C13: on the partial path content, schema and eeat are exactly 0, and the
\* technical score is the auxiliary-file and HTTPS points alone, renormalized
\* by 100 / 70 and kept in [0, 100].
C13_PartialScores ==
    /\ sc.phase = "forced" => sc.local = QInt(0)
    /\ (sc.phase = "returned" /\ sc.name = "technical" /\ sc.mode = "no_html") =>
          \E a \in AuxPoints : sc.result = Clamped(QMul(QInt(a), Q(100, 70)))

\* C14: on the partial path the entity and AI-visibility scorers carry out
\* their analysis: the PageScore of a run whose fetch failed records a scored
\* entity pillar and a scored ai_visibility pillar, not the immediate
\* (0.0, {"error": ...}) return.
C14_PartialPathStillAnalyzes ==
    \A r \in Runs :
        (Fetched(r) /\ ~CrawlOk(crawl[r]) /\ page_score[r] # NoRecord)
            => /\ page_score[r]["entity"] = "scored"
               /\ page_score[r]["ai_visibility"] = "scored"

(***************************************************************************)
(* Properties of a run without API keys, and of the competitor phase       *)
(***************************************************************************)
Ended(r) == pc[r] \in {"done", "crashed"}

\* C11: with neither key set no LLM request is made, no competitor is
\* discovered, the entity scorer runs in its static fallback and the
\* AI-visibility scorer on the five template probes, and a run in which no
\* persistence call raised ends complete.
C11_NoKeysDegradeGracefully ==
    keys = "none" =>
        /\ \A r \in Runs : ncalls[r] = 0
        /\ \A r \in Runs : ~hist[r].competitor.validated
        /\ (sc.phase # "idle" /\ sc.name = "entity") => sc.mode \in {"static", "not_ok"}
        /\ (sc.phase # "idle" /\ sc.name = "ai_visibility") =>
                sc.mode \in {ProbeMode(5), "not_ok"}
        /\ \A r \in Runs :
             (Ended(r) /\ exc[r] \notin {"save", "create"}) => db[r].status = "complete"

\* C12: a validated competitor whose Competitor row could be written has a
\* Competitor record; with a successful fetch the record is scored and has a
\* PageScore, with a failed fetch it is unscored and has none.
C12_CompetitorRecorded ==
    \A r \in Runs :
        LET comp == hist[r].competitor
        IN  (comp.validated /\ comp.saved) =>
                /\ comp.created
                /\ comp.fetch_ok => (comp.scored /\ comp.page_score)
                /\ ~comp.fetch_ok => (~comp.scored /\ ~comp.page_score)

(***************************************************************************)
(* Order and termination of a run                                          *)
(***************************************************************************)
\* C15: the run eventually has a persisted terminal status.
C15_EventuallyTerminal == <>(Terminal(db[1].status))

\* The part of C15 the code keeps: the thread of the run always ends, its
\* loops and worker pools terminate.
ThreadEventuallyEnds == <>Ended(1)

C17_FindingsFrozenAfterScoring ==
    \A r \in Runs : hist[r].recs => hist[r].used = hist[r].stored

\* C19: a run opens its log collection before its first LLM call and has
\* drained it exactly once when its thread ends, whatever the outcome.
C19_LogsStartedAndDrainedOnce ==
    \A r \in Runs :
        /\ ncalls[r] > 0 => hist[r].starts >= 1
        /\ Ended(r) => hist[r].drains = 1

(***************************************************************************)
(* Properties of the LLM gateway                                           *)
(***************************************************************************)
\* C18: when the first request of an available gateway fails, exactly one
\* more request is made, to another provider, and when that one fails too
\* ask_llm returns the empty string.
C18_OneFallbackThenEmpty ==
    (output # <<>> /\ is_available(keys) /\ input.env[1] # "ok") =>
        LET res == output[1]
        IN  /\ Len(res.requests) = 2
            /\ res.requests[2] # res.requests[1]
            /\ input.env[2] # "ok" => res.text = ""

\* C20: when every thread has left _pick_model, the counter has advanced by
\* one for each thread that picked, and the cache holds the availability.
C20_NoLostIncrement ==
    (\A t \in Pickers : picker[t].pc = "done") =>
        /\ call_counter = IF is_available(keys) THEN NumPickers ELSE 0
        /\ availability_cache = IF is_available(keys) THEN "True" ELSE "False"

(***************************************************************************)
(* The waits of crawl_page                                                 *)
(***************************************************************************)
\* C21: between consecutive attempts of crawl_page the wait is 2 seconds
\* before the first retry and 4 seconds before the second, whatever the
\* retryable failure was.
C21_LinearBackoff ==
    output # <<>> =>
        LET res == output[1]
        IN  \A i \in 1..(Len(res.attempts) - 1) : res.sleeps[i] = 2 * i

(***************************************************************************)
(* The two functions that score a competitor, against every fetch          *)
(***************************************************************************)
CompetitorEntries == {"_score_competitor_static", "score_competitor"}

CompetitorInit ==
    /\ RunInit
    /\ GwIdle
    /\ keys \in KeyConfigs
    /\ sc = IdleScorer
    /\ input \in [entry : CompetitorEntries, env : CrawlEnvs]
    /\ output = <<>>

ScoreCompetitor ==
    /\ output = <<>>
    /\ LET fetch_ok == CrawlOk(crawl_page(input.env))
       IN  output' = <<IF input.entry = "score_competitor"
                       THEN score_competitor(fetch_ok, keys)
                       ELSE score_competitor_static(fetch_ok)>>
    /\ UNCHANGED <<runVars, envVars, sc, input>>

SpecCompetitor == CompetitorInit /\ [][ScoreCompetitor]_vars

\* C22: a competitor whose page was fetched is scored by Content, Schema,
\* E-E-A-T and Technical and by no other scorer, and no request is sent
\* through the LLM gateway while it is scored.
C22_CompetitorScoringIsStatic ==
    (output # <<>> /\ CrawlOk(crawl_page(input.env))) =>
        LET res == output[1]
            used == {res.invoked[i] : i \in 1..Len(res.invoked)}
        IN  /\ res.llm_requests = 0
            /\ "entity" \notin used /\ "ai_visibility" \notin used
            /\ used = {"content", "schema", "eeat", "technical"}

(***************************************************************************)
(* pipeline/ai_visibility.py: brand aliases and brand matching.  A string  *)
(* is a sequence of one-character strings.                                 *)
(***************************************************************************)
LowerLetters == <<"a", "b", "c", "d", "e", "f", "g", "h", "i", "j", "k", "l", "m", "n", "o", "p", "q", "r", "s", "t", "u", "v", "w", "x", "y", "z">>

UpperLetters == <<"A", "B", "C", "D", "E", "F", "G", "H", "I", "J", "K", "L", "M", "N", "O", "P", "Q", "R", "S", "T", "U", "V", "W", "X", "Y", "Z">>

IsLower(c) == \E i \in 1..Len(LowerLetters) : LowerLetters[i] = c

IsUpper(c) == \E i \in 1..Len(UpperLetters) : UpperLetters[i] = c

\* str.lower()
str_lower(s) ==
    [i \in 1..Len(s) |->
        IF IsUpper(s[i])
        THEN LowerLetters[CHOOSE k \in 1..Len(UpperLetters) : UpperLetters[k] = s[i]]
        ELSE s[i]]

\* str.strip() for the blank
RECURSIVE str_strip(_)
str_strip(s) ==
    IF s = <<>> THEN s
    ELSE IF Head(s) = " " THEN str_strip(Tail(s))
    ELSE IF s[Len(s)] = " " THEN str_strip(SubSeq(s, 1, Len(s) - 1))
    ELSE s

EndsWith(s, suffix) ==
    Len(s) >= Len(suffix) /\ SubSeq(s, Len(s) - Len(suffix) + 1, Len(s)) = suffix

\* re.sub(r"([a-z])([A-Z])", r"\1 \2", brand_name)
RECURSIVE camel_split(_, _)
camel_split(s, i) ==
    IF i > Len(s) THEN <<>>
    ELSE (IF i > 1 /\ IsLower(s[i - 1]) /\ IsUpper(s[i]) THEN <<" ">> ELSE <<>>)
            \o <<s[i]>> \o camel_split(s, i + 1)

\* brand_lower.replace(" ", "").replace("-", "")
no_spaces(s) == SelectSeq(s, LAMBDA c : c \notin {" ", "-"})

COMPANY_SUFFIXES ==
    {<<" ", "i", "n", "c">>,
     <<" ", "i", "n", "c", ".">>,
     <<" ", "l", "l", "c">>,
     <<" ", "l", "t", "d">>,
     <<" ", "l", "t", "d", ".">>,
     <<" ", "c", "o", "r", "p">>,
     <<" ", "c", "o", "r", "p", ".">>,
     <<" ", "c", "o">>,
     <<" ", "c", "o", ".">>}

\* _build_brand_aliases(brand_name, url); domain_name is the first label of
\* the URL's host, lowercased.  The result is built from a set: its order
\* is not fixed.
build_brand_aliases(brand_name, domain_name) ==
    LET brand_lower == str_strip(str_lower(brand_name))
        stripped == {str_strip(SubSeq(brand_lower, 1, Len(brand_lower) - Len(x))) :
                        x \in {y \in COMPANY_SUFFIXES : EndsWith(brand_lower, y)}}
        split == str_lower(camel_split(brand_name, 1))
        aliases ==
            {brand_lower} \cup stripped
                \cup (IF Len(domain_name) >= 3 THEN {domain_name} ELSE {})
                \cup (IF split # brand_lower THEN {split} ELSE {})
                \cup (IF Len(no_spaces(brand_lower)) >= 3
                      THEN {no_spaces(brand_lower)} ELSE {})
    IN  {a \in aliases : 3 <= Len(a) /\ Len(a) <= 40}

\* The places of text at which alias occurs.
Occurrences(alias, text) ==
    {i \in 1..(Len(text) - Len(alias) + 1) : SubSeq(text, i, i + Len(alias) - 1) = alias}

\* Rule 1: (?<![a-z]) alias (?![a-z])
exact_rule(aliases, text) ==
    \E alias \in aliases : \E i \in Occurrences(alias, text) :
        /\ i = 1 \/ ~IsLower(text[i - 1])
        /\ i + Len(alias) > Len(text) \/ ~IsLower(text[i + Len(alias)])

\* Rule 2: len(alias) >= 5 and alias in text_lower
substring_rule(aliases, text) ==
    \E alias \in aliases : Len(alias) >= 5 /\ Occurrences(alias, text) # {}

\* \w of the regular expressions, for the characters of the model
IsWordChar(c) == IsLower(c) \/ IsUpper(c)

\* Rule 3: alias followed by \.\w{2,4}
domain_rule(aliases, text) ==
    \E alias \in aliases :
        /\ \A k \in 1..Len(alias) : alias[k] # "."
        /\ Len(alias) >= 4
        /\ \E i \in Occurrences(alias, text) :
             LET dot == i + Len(alias)
             IN  /\ dot + 2 <= Len(text)
                 /\ text[dot] = "."
                 /\ IsWordChar(text[dot + 1]) /\ IsWordChar(text[dot + 2])

\* text_lower.split()
RECURSIVE split_words(_, _, _)
split_words(text, i, word) ==
    IF i > Len(text) THEN (IF word = <<>> THEN <<>> ELSE <<word>>)
    ELSE IF text[i] = " "
    THEN (IF word = <<>> THEN <<>> ELSE <<word>>) \o split_words(text, i + 1, <<>>)
    ELSE split_words(text, i + 1, Append(word, text[i]))

StripChars == {".", ",", ";", ":", "!", "?", "(", ")", "[", "]", "{", "}", "\"", "'"}

\* w.strip(".,;:!?()[]{}\"'")
RECURSIVE strip_punctuation(_)
strip_punctuation(w) ==
    IF w = <<>> THEN w
    ELSE IF Head(w) \in StripChars THEN strip_punctuation(Tail(w))
    ELSE IF w[Len(w)] \in StripChars THEN strip_punctuation(SubSeq(w, 1, Len(w) - 1))
    ELSE w

\* One row of the table of longest common subsequences of a and b: prev is
\* the row of the prefix before the character c; entry j is for the first
\* j - 1 characters of b.
lcs_row(prev, c, b) ==
    [j \in 1..(Len(b) + 1) |->
        LET cands == {prev[j]} \cup {prev[k] + 1 : k \in {x \in 1..(j - 1) : b[x] = c}}
        IN  CHOOSE v \in cands : \A w \in cands : w <= v]

RECURSIVE lcs_rows(_, _, _, _)
lcs_rows(a, b, i, prev) ==
    IF i > Len(a) THEN prev[Len(b) + 1]
    ELSE lcs_rows(a, b, i + 1, lcs_row(prev, a[i], b))

\* Levenshtein.ratio(a, b): (lensum - distance) / lensum, where a
\* substitution costs 2, i.e. 2 * lcs / lensum.
Levenshtein_ratio(a, b) ==
    IF Len(a) + Len(b) = 0 THEN QInt(1)
    ELSE Q(2 * lcs_rows(a, b, 1, [k \in 1..(Len(b) + 1) |-> 0]), Len(a) + Len(b))

FUZZY_THRESHOLD == Q(85, 100)

JoinWords(ws) ==
    LET RECURSIVE join(_)
        join(k) == IF k > Len(ws) THEN <<>>
                   ELSE (IF k > 1 THEN <<" ">> ELSE <<>>) \o ws[k] \o join(k + 1)
    IN  join(1)

\* Rule 4: the match types the fuzzy loop can return; which one comes first
\* depends on the order of the aliases.
fuzzy_rule(aliases, text) ==
    LET words == split_words(text, 1, <<>>)
        cleaned_words == [k \in 1..Len(words) |-> strip_punctuation(words[k])]
        has_space(alias) == \E k \in 1..Len(alias) : alias[k] = " "
        single == \E alias \in aliases : \E k \in 1..Len(cleaned_words) :
                     /\ ~has_space(alias)
                     /\ Len(cleaned_words[k]) >= 3
                     /\ QLt(FUZZY_THRESHOLD, Levenshtein_ratio(alias, cleaned_words[k]))
        ngram == \E alias \in aliases :
                     /\ has_space(alias)
                     /\ LET n == Len(split_words(alias, 1, <<>>))
                        IN  \E i \in 1..(Len(cleaned_words) - n + 1) :
                              QLt(FUZZY_THRESHOLD,
                                  Levenshtein_ratio(alias,
                                      JoinWords(SubSeq(cleaned_words, i, i + n - 1))))
    IN  (IF single THEN {"fuzzy"} ELSE {}) \cup (IF ngram THEN {"fuzzy_ngram"} ELSE {})

Match(found, confidence, type) ==
    [found |-> found, confidence |-> confidence, type |-> type]

\* _match_brand(aliases, text): the results it can return; confidence in
\* tenths.  levenshtein: the Levenshtein package can be imported.
match_brand(aliases, text, levenshtein) ==
    LET text_lower == str_lower(text)
    IN  IF exact_rule(aliases, text_lower) THEN {Match(TRUE, 10, "exact")}
        ELSE IF substring_rule(aliases, text_lower) THEN {Match(TRUE, 8, "substring")}
        ELSE IF domain_rule(aliases, text_lower) THEN {Match(TRUE, 9, "domain")}
        ELSE IF levenshtein /\ fuzzy_rule(aliases, text_lower) # {}
        THEN {Match(TRUE, 7, t) : t \in fuzzy_rule(aliases, text_lower)}
        ELSE {Match(FALSE, 0, "none")}

(***************************************************************************)
(* _match_brand for the brand CarbonCut against short texts                *)
(***************************************************************************)
CarbonCut == <<"C", "a", "r", "b", "o", "n", "C", "u", "t">>

DomainNames == {<<"c", "a", "r", "b", "o", "n", "c", "u", "t">>, <<"c", "c", "u", "t">>}

TextWords ==
    {<<"c", "a", "r", "b", "o", "n">>,
     <<"c", "u", "t">>,
     <<"c", "a", "r", "b", "o", "n", "c", "u", "t">>,
     <<"c", "a", "r", "b", "o", "n", "c", "u", "t", "t">>,
     <<"c", "a", "r", "b", "n", "c", "u", "t">>,
     <<"c", "a", "r", "b", "n">>,
     <<"x", "c", "c", "u", "t", ".", "i", "o">>,
     <<"t", "h", "e">>}

MaxWords == 3

Texts == UNION {{JoinWords(ws) : ws \in [1..n -> TextWords]} : n \in 1..MaxWords}

MatchInit ==
    /\ RunInit
    /\ EnvIdle
    /\ sc = IdleScorer
    /\ input \in [text : Texts, domain_name : DomainNames, levenshtein : BOOLEAN]
    /\ output = <<>>

MatchBrand ==
    /\ output = <<>>
    /\ \E res \in match_brand(build_brand_aliases(CarbonCut, input.domain_name),
                              input.text, input.levenshtein) :
         output' = <<res>>
    /\ UNCHANGED <<runVars, envVars, sc, input>>

SpecMatch == MatchInit /\ [][MatchBrand]_vars

(***************************************************************************)
(* Properties of brand matching                                            *)
(***************************************************************************)
\* C23: _match_brand returns the first rule that matches in the order
\* exact, substring, domain, fuzzy; for the brand CarbonCut a text that
\* contains "carbon cut" is matched with type exact, and the text
\* "carboncutt" is matched through the fuzzy rule or not at all, and through
\* the fuzzy rule only if a word of the text has similarity 0.85 or more.
C23_MatchBrand ==
    output # <<>> =>
        LET aliases == build_brand_aliases(CarbonCut, input.domain_name)
            text == str_lower(input.text)
            res == output[1]
            fuzzy == input.levenshtein /\ fuzzy_rule(aliases, text) # {}
        IN  /\ res.type = "exact" <=> exact_rule(aliases, text)
            /\ res.type = "substring" <=>
                    (~exact_rule(aliases, text) /\ substring_rule(aliases, text))
            /\ res.type = "domain" <=>
                    /\ ~exact_rule(aliases, text) /\ ~substring_rule(aliases, text)
                    /\ domain_rule(aliases, text)
            /\ res.type \in {"fuzzy", "fuzzy_ngram"} <=>
                    /\ ~exact_rule(aliases, text) /\ ~substring_rule(aliases, text)
                    /\ ~domain_rule(aliases, text) /\ fuzzy
            /\ Occurrences(<<"c", "a", "r", "b", "o", "n", " ", "c", "u", "t">>, text) # {} => res.type = "exact"
            /\ text = <<"c", "a", "r", "b", "o", "n", "c", "u", "t", "t">> =>
                    /\ res.type \in {"fuzzy", "fuzzy_ngram", "none"}
                    /\ res.type # "none" =>
                         \E a \in aliases :
                            QLe(FUZZY_THRESHOLD, Levenshtein_ratio(a, text))

(***************************************************************************)
(* content.py: the heading-hierarchy check of _score_structure.  A page is *)
(* the sequence of the levels of its headings in document order.           *)
(***************************************************************************)
\* for level in range(1, 7): for tag in soup.find_all(f"h{level}"):
\* headings.append(level)
RECURSIVE collect_headings(_, _)
collect_headings(doc, level) ==
    IF level > 6 THEN <<>>
    ELSE SelectSeq(doc, LAMBDA h : h = level) \o collect_headings(doc, level + 1)

\* The second check of _score_structure: 5 points, or the finding.
heading_hierarchy(doc) ==
    LET headings == collect_headings(doc, 1)
        hierarchy_ok == \A i \in 2..Len(headings) : headings[i] - headings[i - 1] <= 1
    IN  IF hierarchy_ok /\ headings # <<>>
        THEN B(5, {})
        ELSE B(0, {"broken_heading_hierarchy"})

MaxHeadings == 4

HeadingDocs == UNION {[1..n -> 1..6] : n \in 0..MaxHeadings}

HeadingInit ==
    /\ RunInit
    /\ EnvIdle
    /\ sc = IdleScorer
    /\ input \in HeadingDocs
    /\ output = <<>>

ScoreHeadings ==
    /\ output = <<>>
    /\ output' = <<heading_hierarchy(input)>>
    /\ UNCHANGED <<runVars, envVars, sc, input>>

SpecHeadings == HeadingInit /\ [][ScoreHeadings]_vars

\* C24: the 5 heading-hierarchy points are awarded if and only if the page
\* has headings and no heading is more than one level below the heading
\* before it in document order; otherwise none are awarded and
\* broken_heading_hierarchy is emitted.
C24_HeadingHierarchy ==
    output # <<>> =>
        LET no_skip == \A i \in 2..Len(input) : input[i] - input[i - 1] <= 1
        IN  IF input # <<>> /\ no_skip
            THEN output[1] = B(5, {})
            ELSE output[1] = B(0, {"broken_heading_hierarchy"})

(***************************************************************************)
(* technical.py: _check_robots_allows_ai and the robots.txt block of       *)
(* score_technical.  A robots.txt is the sequence of its lines, lowercased *)
(* and split at the colon as the code does.                                *)
(***************************************************************************)
AI_BOT_AGENTS ==
    <<"GPTBot", "Google-Extended", "anthropic-ai", "ClaudeBot",
      "PerplexityBot", "ChatGPT-User", "CCBot">>

\* bot.lower()
bot_lower(bot) ==
    CASE bot = "GPTBot" -> "gptbot"
      [] bot = "Google-Extended" -> "google-extended"
      [] bot = "anthropic-ai" -> "anthropic-ai"
      [] bot = "ClaudeBot" -> "claudebot"
      [] bot = "PerplexityBot" -> "perplexitybot"
      [] bot = "ChatGPT-User" -> "chatgpt-user"
      [] bot = "CCBot" -> "ccbot"

RobotsLine(field, value) == [field |-> field, value |-> value]

\* The lines a robots.txt is made of.  No agent of this menu contains the
\* name of another one, so "bot.lower() in current_agent" is equality here.
RobotsLines ==
    {RobotsLine("user-agent", a) : a \in {"*", "gptbot", "claudebot", "googlebot"}}
        \cup {RobotsLine("disallow", p) : p \in {"/", "/*", "/private"}}
        \cup {RobotsLine("allow", "/")}

\* The loop of _check_robots_allows_ai over the lines from i on.
RECURSIVE robots_loop(_, _, _, _)
robots_loop(lines, i, current_agent, blocked) ==
    IF i > Len(lines) THEN blocked
    ELSE LET line == lines[i]
         IN  IF line.field = "user-agent"
             THEN robots_loop(lines, i + 1, line.value, blocked)
             ELSE IF line.field = "disallow" /\ current_agent # "" /\ line.value \in {"/", "/*"}
             THEN robots_loop(lines, i + 1, current_agent,
                    blocked \o SelectSeq(AI_BOT_AGENTS,
                                  LAMBDA bot : current_agent = "*"
                                                \/ bot_lower(bot) = current_agent))
             ELSE robots_loop(lines, i + 1, current_agent, blocked)

\* _check_robots_allows_ai(robots_txt); current_agent starts as None.
check_robots_allows_ai(lines) ==
    IF lines = <<>> THEN [allows |-> TRUE, blocked |-> <<>>]
    ELSE LET blocked == robots_loop(lines, 1, "", <<>>)
         IN  [allows |-> Len(blocked) = 0, blocked |-> blocked]

\* The robots.txt block of score_technical; a robots.txt that could not be
\* fetched, or is empty, is the empty sequence.
robots_block(lines) ==
    IF lines # <<>>
    THEN IF check_robots_allows_ai(lines).allows
         THEN B(20, {}) ELSE B(0, {"ai_bots_blocked"})
    ELSE B(20, {})

MaxRobotsLines == 3

RobotsInit ==
    /\ RunInit
    /\ EnvIdle
    /\ sc = IdleScorer
    /\ input \in UNION {[1..n -> RobotsLines] : n \in 0..MaxRobotsLines}
    /\ output = <<>>

CheckRobots ==
    /\ output = <<>>
    /\ output' = <<[check |-> check_robots_allows_ai(input), block |-> robots_block(input)]>>
    /\ UNCHANGED <<runVars, envVars, sc, input>>

SpecRobots == RobotsInit /\ [][CheckRobots]_vars

\* The user agents of the group that the rule in line i belongs to: the
\* run of User-agent lines that ends at the last User-agent line before i.
GroupAgents(lines, i) ==
    LET before == {j \in 1..(i - 1) : lines[j].field = "user-agent"}
    IN  IF before = {} THEN {}
        ELSE LET last == CHOOSE j \in before : \A k \in before : k <= j
             IN  {lines[j].value : j \in {k \in 1..last :
                        \A m \in k..last : lines[m].field = "user-agent"}}

\* C25: every AI bot that a Disallow: / or Disallow: /* addresses, through
\* a group for * or a group that names the bot, also a group with several
\* User-agent lines, is reported blocked; then the 20 points are withheld and
\* ai_bots_blocked is emitted; an absent or empty robots.txt earns them.
C25_RobotsBlocksAiBots ==
    output # <<>> =>
        LET res == output[1]
            addressed ==
                {AI_BOT_AGENTS[b] : b \in {n \in 1..Len(AI_BOT_AGENTS) :
                    \E i \in 1..Len(input) :
                        /\ input[i].field = "disallow" /\ input[i].value \in {"/", "/*"}
                        /\ \/ "*" \in GroupAgents(input, i)
                           \/ bot_lower(AI_BOT_AGENTS[n]) \in GroupAgents(input, i)}}
            reported == {res.check.blocked[k] : k \in 1..Len(res.check.blocked)}
        IN  /\ addressed \subseteq reported
            /\ addressed # {} => res.block = B(0, {"ai_bots_blocked"})
            /\ input = <<>> => res.block = B(20, {})

(***************************************************************************)
(* Properties of score_schema                                              *)
(***************************************************************************)
\* score_schema has returned for a page with JSON-LD.
SchemaScored ==
    sc.name = "schema" /\ sc.mode = "ok" /\ sc.phase = "returned" /\ input # <<>>

TypesFound == {input[i].type : i \in 1..Len(input)}

\* The first object of type t: the one score_schema scores for t.
ScoredObject(t) ==
    input[CHOOSE i \in 1..Len(input) :
            input[i].type = t /\ \A j \in 1..(i - 1) : input[j].type # t]

\* C26: with JSON-LD present, score_schema emits no_faqpage_schema when no
\* FAQPage is found, no_article_schema when no Article, NewsArticle or
\* BlogPosting is found, and no_organization_schema when no identity type
\* is found.
C26_MissingTypeFindings ==
    SchemaScored =>
        /\ "FAQPage" \notin TypesFound => "no_faqpage_schema" \in sc.emitted
        /\ TypesFound \cap {"Article", "NewsArticle", "BlogPosting"} = {} =>
                "no_article_schema" \in sc.emitted
        /\ TypesFound \cap identity_types = {} => "no_organization_schema" \in sc.emitted

\* C27: for every recognized type present, the identity types included, a
\* scored object that lacks a required property yields the finding
\* incomplete_<type>_schema.  Of several identity types only one is scored,
\* so an identity type is looked at when it is the only one present.
C27_IncompleteTypeFindings ==
    SchemaScored =>
        \A t \in TypesFound \cap DOMAIN SCHEMA_REQUIRED_PROPS :
            (/\ t \in identity_types => TypesFound \cap identity_types = {t}
             /\ RequiredProps(t) \ ScoredObject(t).props # {})
                => ("incomplete_" \o Lower(t) \o "_schema") \in sc.emitted

\* C28: a page whose JSON-LD is an Organization and a FAQPage, each with
\* @context and all its required properties, gets a schema score of 70 or
\* more.
C28_OrganizationAndFaqScore70 ==
    (/\ SchemaScored
     /\ Len(input) = 2
     /\ TypesFound = {"Organization", "FAQPage"}
     /\ \A i \in 1..2 : input[i].context /\ RequiredProps(input[i].type) \subseteq input[i].props)
        => QLe(QInt(70), sc.result)

(***************************************************************************)
(* ask_multiple_llms: one ask_llm per provider, each against its own       *)
(* sequence of answers                                                     *)
(***************************************************************************)
Providers == {MODELS[i] : i \in 1..Len(MODELS)}

\* The model that wrote the text of a gateway result: the last one asked.
producer(res) == IF res.text = "" THEN "none" ELSE res.requests[Len(res.requests)]

\* ask_multiple_llms(prompt): the dictionary as the set of its items, each
\* with the model that wrote its text.
ask_multiple_llms(k, counter, envs) ==
    IF ~is_available(k) THEN {}
    ELSE IF k # "openrouter"
    THEN LET result == call_gemini_direct(counter, envs["gemini"])
         IN  IF result.text # ""
             THEN {[provider |-> "gemini", text |-> result.text, model |-> producer(result)]}
             ELSE {}
    ELSE {LET res == ask_llm(k, p, counter, envs[p])
          IN  [provider |-> p, text |-> res.text, model |-> producer(res)] : p \in Providers}

\* What a request of a probe can end in.
ProbeResponses == {"ok", "timeout", "transport_error"}

MultiInit ==
    /\ RunInit
    /\ GwIdle
    /\ sc = IdleScorer
    /\ keys \in KeyConfigs
    /\ input \in [Providers -> [1..MaxRequests -> ProbeResponses]]
    /\ output = <<>>

AskMultipleLlms ==
    /\ output = <<>>
    /\ output' = <<ask_multiple_llms(keys, call_counter, input)>>
    /\ UNCHANGED <<runVars, envVars, sc, input>>

SpecMulti == MultiInit /\ [][AskMultipleLlms]_vars

\* C30: in the dictionary ask_multiple_llms returns, a text stored under the
\* provider key p was written by p's own model, so no model's answer is
\* stored under two keys.
C30_ResponsesUnderOwnKey ==
    output # <<>> =>
        \A item \in output[1] :
            item.text # "" => item.model \in {item.provider, item.provider \o "-direct"}

====
